---- MODULE Spec2Model ----
(***************************************************************************)
(* Model of the pose-derived exercise analysis engine of Fit-Friend.       *)
(*                                                                         *)
(*   Spec          the live session of IntegratedPoseCoach                 *)
(*                 (pose_tracker.py): label smoothing, the per-exercise    *)
(*                 hysteresis rep counter and reset_session, called in any *)
(*                 order;                                                  *)
(*   SpecSmooth    the label smoother and reset_session over the whole     *)
(*                 window of ten labels;                                   *)
(*   SpecScore     the rule-based form scorer analyze_form_quality         *)
(*                 (features.py) applied to a feature vector;              *)
(*   SpecEstimate  the batch rep estimator                                 *)
(*                 VideoAnalyzer.estimate_rep_count (app.py) applied to a  *)
(*                 list of form scores;                                    *)
(*   SpecDetect    the rule-based classifier detect_exercise_type          *)
(*                 (features.py) applied to a feature vector;              *)
(*   SpecExtract   extract_comprehensive_features (features.py) with the   *)
(*                 angle history of the module-level extractor;            *)
(*   SpecTemporal  calculate_temporal_features (features.py) called on its *)
(*                 own, on an angle history that is empty or nearly full;  *)
(*   SpecAngle     calculate_angle (features.py) applied to three points;  *)
(*   SpecVoice     the voice queue of EnhancedSmartCoach (smart_coach.py): *)
(*                 say_coaching, the voice worker and cleanup;             *)
(*   SpecBatch     VideoAnalyzer.analyze_video (app.py) run on a video,    *)
(*                 several times in one process;                           *)
(*   SpecVoiceLive SpecVoice with a voice worker that keeps being          *)
(*                 scheduled;                                              *)
(*   SpecCoach     SmartCoach.update and reset_session (smart_coach.py)    *)
(*                 called directly;                                        *)
(*   SpecSession   the live session with its SmartCoach                    *)
(*                 (smart_coach.py) and the feature extractor: the steps   *)
(*                 of the run loop and reset_session, called in any order. *)
(*                                                                         *)
(* Numbers.  Joint angles are integers (degrees).  An average of two       *)
(* angles is kept doubled (right + left) and compared with the doubled     *)
(* threshold, which is exact.  A confidence count/len (len <= 10) is kept  *)
(* as the integer count * ConfScale / len, ConfScale = lcm(1..10), which   *)
(* is exact as well; 0.6 is 6 * ConfScale / 10 (in the code 3/5 and 6/10   *)
(* are the same double as the literal 0.6).  mean - std of the estimator   *)
(* is compared in exact integer arithmetic.                                *)
(***************************************************************************)
EXTENDS Integers, Sequences, FiniteSets, TLC

VARIABLES
    current_exercise,     \* IntegratedPoseCoach.current_exercise
    exercise_confidence,  \* IntegratedPoseCoach.exercise_confidence (scaled)
    exercise_history,     \* IntegratedPoseCoach.exercise_history, deque(maxlen=10)
    rep_count,            \* IntegratedPoseCoach.rep_count
    rep_states,           \* IntegratedPoseCoach.rep_states
    window_confidence,    \* the local `confidence` of the last smoothing call
    alternating,          \* observer: labels fed since start/reset alternate
    squat_script,         \* observer: progress along the squat script
    tracker,              \* IntegratedPoseCoach: form_scores, last_form_score
    coach,                \* IntegratedPoseCoach.coach, a SmartCoach or none
    exercise,             \* analyze_form_quality: argument `exercise`
    features,             \* analyze_form_quality: argument `features`
    analysis,             \* analyze_form_quality: returned dict
    form_scores,          \* estimate_rep_count: argument `form_scores`
    estimate,             \* estimate_rep_count: returned value
    detected_label,       \* detect_exercise_type: returned label
    angle_history,        \* feature_extractor.angle_history, deque(maxlen=30)
    extracted,            \* extract_comprehensive_features: the last call
    video,                \* analyze_video: the video behind `video_path`
    run_state,            \* analyze_video: "ready", "running" or "returned"
    runs,                 \* analyze_video: calls made in this process
    frame_count,          \* analyze_video: local `frame_count`
    exercise_votes,       \* analyze_video: local dict `exercise_votes`
    analysis_results,     \* analyze_video: local dict `analysis_results`
    result,               \* analyze_video: the value returned by the last call
    prev_result,          \* observer: the value returned by the call before
    analyzed_log,         \* observer: the frames of this run that cast a vote
    angle_args,           \* calculate_angle: the arguments a, b, c
    angle_returned,       \* calculate_angle: returned value
    voice_enabled,        \* EnhancedSmartCoach.voice_enabled
    voice_queue,          \* EnhancedSmartCoach.voice_queue, a queue.Queue
    voice_thread,         \* voice_worker: "waiting", "speaking", "stopped"
    put_outcome,          \* say_coaching: how the last voice_queue.put went
    said,                 \* say_coaching: calls that have returned
    voice_log,            \* observer: what went through voice_queue
    temporal_calls,       \* calculate_temporal_features: direct calls made
    temporal_args,        \* calculate_temporal_features: `current_angles`
    temporal_returned     \* calculate_temporal_features: returned dict

liveVars == <<current_exercise, exercise_confidence, exercise_history,
              rep_count, rep_states, window_confidence,
              alternating, squat_script, tracker, coach>>
scoreVars == <<exercise, features, analysis>>
estVars == <<form_scores, estimate>>
classifyVars == <<detected_label>>
extractVars == <<angle_history, extracted>>
batchVars == <<video, run_state, runs, frame_count, exercise_votes,
               analysis_results, result, prev_result, analyzed_log>>
angleVars == <<angle_args, angle_returned>>
voiceVars == <<voice_enabled, voice_queue, voice_thread, put_outcome, said,
               voice_log>>
temporalVars == <<temporal_calls, temporal_args, temporal_returned>>
unitVars == <<angleVars, voiceVars, temporalVars>>
pipelineVars == <<classifyVars, extractVars, batchVars, unitVars>>
vars == <<liveVars, scoreVars, estVars, pipelineVars>>

None == "None"
\* "no value" where the value is a number
NoNumber == 0 - 1
\* observer value: the calls made do not follow the script
OffScript == 0 - 1

----------------------------------------------------------------------------
(* Bounds of the model *)

\* labels fed to one live session before it is reset (Spec)
MaxFed == 8
\* reps counted in one live session (Spec)
MaxReps == 2
\* number of distinct raw labels fed to the smoother (SpecSmooth)
NumLabels == 2

----------------------------------------------------------------------------
(* Labels *)

ExerciseLabels == {"squat", "push_up", "bicep_curl", "plank", "unknown"}

LabelOrder == <<"unknown", "squat", "bicep_curl", "push_up", "plank">>

\* the raw labels the smoother is fed in SpecSmooth
SmoothLabels == {LabelOrder[i] : i \in 1..NumLabels}

Range(s) == {s[i] : i \in 1..Len(s)}

MaxZero(x) == IF x > 0 THEN x ELSE 0

RECURSIVE SumSeq(_)
SumSeq(q) == IF q = << >> THEN 0 ELSE Head(q) + SumSeq(Tail(q))

----------------------------------------------------------------------------
(* smooth_exercise_detection *)

ConfScale == 2520
HistoryMaxlen == 10
\* mutant: the window test written `> 5`
SmoothMinLen_Six == 5 + 1
SmoothMinLen == 5

\* mutant: a threshold of 0.5
ConfidenceThreshold_Half == ConfScale \div 2

\* 0.6 on the confidence scale
ConfidenceThreshold == (6 * ConfScale) \div 10

\* deque.append on a deque with maxlen
DequeAppend(dq, x, maxlen) ==
    IF Len(dq) >= maxlen THEN Append(Tail(dq), x) ELSE Append(dq, x)

\* exercise_counts[ex] after the counting loop
ExerciseCount(h, ex) == Len(SelectSeq(h, LAMBDA x : x = ex))

\* mutant: the first key of exercise_counts is taken
MostCommon_FirstKey(h) == h[1]

\* max(exercise_counts, key=exercise_counts.get): the first key, in dict
\* insertion order, holding the maximal count.  Keys are inserted in the order
\* of their first occurrence in the history, so among the keys with the
\* maximal count it is the one that occurs first in the history.
MostCommon(h) ==
    LET exercise_counts == [ex \in Range(h) |-> ExerciseCount(h, ex)]
        best == {ex \in DOMAIN exercise_counts :
                    \A other \in DOMAIN exercise_counts :
                        exercise_counts[ex] >= exercise_counts[other]}
    IN  IF Cardinality(best) = 1
        THEN CHOOSE ex \in best : TRUE
        ELSE h[CHOOSE i \in 1..Len(h) :
                    h[i] \in best /\ \A j \in 1..(i - 1) : h[j] \notin best]

\* mutant: the count is divided by the bound of the window
Confidence_OverMaxlen(h, most_common) ==
    (ExerciseCount(h, most_common) * ConfScale) \div HistoryMaxlen

\* exercise_counts[most_common] / len(self.exercise_history)
Confidence(h, most_common) ==
    (ExerciseCount(h, most_common) * ConfScale) \div Len(h)

\* mutant: a simple-majority threshold of 0.5
ConfidenceHighEnough_Half(confidence) == 2 * confidence >= ConfScale

\* the update condition of smooth_exercise_detection
ConfidenceHighEnough(confidence) == confidence >= ConfidenceThreshold

\* observer: the labels fed since start/reset strictly alternate between two
\* different labels
StillAlternating(h, arg) ==
    LET d == IF arg = None THEN "unknown" ELSE arg
    IN  /\ alternating
        /\ Len(h) >= 1 => d # h[Len(h)]
        /\ Len(h) >= 2 => d = h[Len(h) - 1]

smooth_exercise_detection(arg) ==
    LET detected_exercise == IF arg = None THEN "unknown" ELSE arg
        h == DequeAppend(exercise_history, detected_exercise, HistoryMaxlen)
    IN  /\ exercise_history' = h
        /\ IF Len(h) >= SmoothMinLen
           THEN \E most_common \in {MostCommon(h)} :
                \E confidence \in {Confidence(h, most_common)} :
                    /\ window_confidence' = confidence
                    /\ IF ConfidenceHighEnough(confidence)
                       THEN /\ current_exercise' = most_common
                            /\ exercise_confidence' = confidence
                       ELSE UNCHANGED <<current_exercise, exercise_confidence>>
           ELSE /\ window_confidence' = NoNumber
                /\ UNCHANGED <<current_exercise, exercise_confidence>>
        /\ UNCHANGED <<rep_count, rep_states, tracker, coach>>

----------------------------------------------------------------------------
(* update_rep_count and the three _count_reps_* helpers *)

InitialRepStates ==
    [ex \in {"squat", "bicep_curl", "push_up"} |->
        CASE ex = "squat" ->
                [threshold_low |-> 120, threshold_high |-> 160,
                 current_phase |-> "up", last_angle |-> None]
          [] ex = "bicep_curl" ->
                [threshold_low |-> 90, threshold_high |-> 150,
                 current_phase |-> "down", last_angle |-> None]
          [] ex = "push_up" ->
                [threshold_low |-> 110, threshold_high |-> 160,
                 current_phase |-> "up", last_angle |-> None]]

\* mutant: the closing branch does not test the phase
count_reps_squat_NoPhaseCheck(angle2, state) ==
    IF state.current_phase = "up" /\ angle2 < 2 * state.threshold_low
    THEN [state |-> [state EXCEPT !.current_phase = "down"], inc |-> 0]
    ELSE IF angle2 > 2 * state.threshold_high
    THEN [state |-> [state EXCEPT !.current_phase = "up"], inc |-> 1]
    ELSE [state |-> state, inc |-> 0]

\* Each helper yields the new state dict and the increment of rep_count.
\* angle2 is the doubled average angle.
count_reps_squat(angle2, state) ==
    IF state.current_phase = "up" /\ angle2 < 2 * state.threshold_low
    THEN [state |-> [state EXCEPT !.current_phase = "down"], inc |-> 0]
    ELSE IF state.current_phase = "down" /\ angle2 > 2 * state.threshold_high
    THEN [state |-> [state EXCEPT !.current_phase = "up"], inc |-> 1]
    ELSE [state |-> state, inc |-> 0]

\* mutant: the closing branch subtracts the rep
count_reps_bicep_Decrement(angle2, state) ==
    IF state.current_phase = "down" /\ angle2 < 2 * state.threshold_low
    THEN [state |-> [state EXCEPT !.current_phase = "up"], inc |-> 0]
    ELSE IF state.current_phase = "up" /\ angle2 > 2 * state.threshold_high
    THEN [state |-> [state EXCEPT !.current_phase = "down"], inc |-> 0 - 1]
    ELSE [state |-> state, inc |-> 0]

count_reps_bicep(angle2, state) ==
    IF state.current_phase = "down" /\ angle2 < 2 * state.threshold_low
    THEN [state |-> [state EXCEPT !.current_phase = "up"], inc |-> 0]
    ELSE IF state.current_phase = "up" /\ angle2 > 2 * state.threshold_high
    THEN [state |-> [state EXCEPT !.current_phase = "down"], inc |-> 1]
    ELSE [state |-> state, inc |-> 0]

\* mutant: the closing branch counts the rep but leaves the phase "down"
count_reps_pushup_NoPhaseFlip(angle2, state) ==
    IF state.current_phase = "up" /\ angle2 < 2 * state.threshold_low
    THEN [state |-> [state EXCEPT !.current_phase = "down"], inc |-> 0]
    ELSE IF state.current_phase = "down" /\ angle2 > 2 * state.threshold_high
    THEN [state |-> state, inc |-> 1]
    ELSE [state |-> state, inc |-> 0]

count_reps_pushup(angle2, state) ==
    IF state.current_phase = "up" /\ angle2 < 2 * state.threshold_low
    THEN [state |-> [state EXCEPT !.current_phase = "down"], inc |-> 0]
    ELSE IF state.current_phase = "down" /\ angle2 > 2 * state.threshold_high
    THEN [state |-> [state EXCEPT !.current_phase = "up"], inc |-> 1]
    ELSE [state |-> state, inc |-> 0]

\* mutant: the knee angles are averaged for every exercise
RepJoint_KneesForAll(ex) == <<"right_knee_angle", "left_knee_angle">>

\* the two angle features update_rep_count averages for an exercise
RepJoint(ex) == IF ex = "squat"
                THEN <<"right_knee_angle", "left_knee_angle">>
                ELSE <<"right_elbow_angle", "left_elbow_angle">>

\* mutant: an angle feature that is missing counts as an angle of 0
RepUpdate_MissingAsZero(f) ==
    LET ex == current_exercise
        unchanged == [states |-> rep_states, count |-> rep_count]
        value(key) == IF key \in DOMAIN f THEN f[key] ELSE 0
    IN  IF ex \notin DOMAIN rep_states THEN unchanged
        ELSE LET angle2 == value(RepJoint(ex)[1]) + value(RepJoint(ex)[2])
                 r == CASE ex = "squat" -> count_reps_squat(angle2, rep_states[ex])
                        [] ex = "bicep_curl" -> count_reps_bicep(angle2, rep_states[ex])
                        [] ex = "push_up" -> count_reps_pushup(angle2, rep_states[ex])
             IN  [states |-> [rep_states EXCEPT ![ex] = r.state],
                  count |-> rep_count + r.inc]

\* what update_rep_count does to (rep_states, rep_count) for features f
RepUpdate(f) ==
    LET ex == current_exercise
        unchanged == [states |-> rep_states, count |-> rep_count]
    IN  IF ex \notin DOMAIN rep_states THEN unchanged
        ELSE IF ~ (RepJoint(ex)[1] \in DOMAIN f /\ RepJoint(ex)[2] \in DOMAIN f)
        THEN unchanged
        ELSE LET angle2 == f[RepJoint(ex)[1]] + f[RepJoint(ex)[2]]
                 r == CASE ex = "squat" -> count_reps_squat(angle2, rep_states[ex])
                        [] ex = "bicep_curl" -> count_reps_bicep(angle2, rep_states[ex])
                        [] ex = "push_up" -> count_reps_pushup(angle2, rep_states[ex])
             IN  [states |-> [rep_states EXCEPT ![ex] = r.state],
                  count |-> rep_count + r.inc]

\* the squat script of the counter: average knee angles 170, 100, 170
SquatScript == <<170, 100, 170>>

\* observer: squat_script = k when the update_rep_count calls made since
\* start/reset are exactly the first k angles of SquatScript, each made while
\* the current exercise is squat; OffScript otherwise
ScriptStep(f) ==
    IF /\ squat_script # OffScript
       /\ squat_script < Len(SquatScript)
       /\ current_exercise = "squat"
       /\ {"right_knee_angle", "left_knee_angle"} \subseteq DOMAIN f
       /\ f["right_knee_angle"] + f["left_knee_angle"]
              = 2 * SquatScript[squat_script + 1]
    THEN squat_script + 1
    ELSE OffScript

update_rep_count(f) ==
    /\ \E r \in {RepUpdate(f)} :
          rep_states' = r.states /\ rep_count' = r.count
    /\ UNCHANGED <<current_exercise, exercise_confidence, exercise_history,
                   window_confidence, tracker, coach>>

----------------------------------------------------------------------------
(* SmartCoach, EnhancedSmartCoach and the tracker's form-score fields *)

\* Time.  A timestamp is kept only as far as the code compares it: an
\* entry of form_history is its score, an entry of rep_history is the mark
\* "t", rest_start_time and rest_start are None or "set".  What a call
\* reads off the clock, it is handed as the argument `clock`.

FormHistoryMaxlen == 100
RepHistoryMaxlen == 50
CoachHistoryMaxlen == 20
FormScoresMaxlen == 50

\* IntegratedPoseCoach.__init__: last_form_score and form_scores
InitialTracker == [form_scores |-> << >>, last_form_score |-> 100]

\* IntegratedPoseCoach.__init__ when SmartCoach() raised: self.coach = None
NoCoach == [constructed |-> FALSE]

\* SmartCoach.__init__ on top of EnhancedSmartCoach.__init__; the attribute
\* last_rep_count does not exist yet (NoNumber).  coaching_branch is an
\* observer: the branch the last call of provide_coaching took ("rest" for
\* the rest coaching, "form" for the form-based coaching below it).
InitialCoach ==
    [form_history |-> << >>,
     rep_history |-> << >>,
     exercise_history |-> << >>,
     current_exercise |-> "unknown",
     coaching_mode |-> "encouragement",
     fatigue_detected |-> FALSE,
     rest_recommended |-> FALSE,
     rest_start_time |-> None,
     last_rep_count |-> NoNumber,
     last_form_score |-> 100,
     resting |-> FALSE,
     rest_start |-> None,
     coaching_branch |-> "none"]

\* what one coach update reads off the clock: whether a rest begun by an
\* earlier update has lasted recommended_rest_duration, and how many
\* entries of rep_history are younger than a minute
Clocks(c) ==
    [rest_over : IF c.rest_recommended THEN BOOLEAN ELSE {FALSE},
     recent_reps : IF Len(c.rep_history) >= 4
                     THEN {0, RepHistoryMaxlen}
                     ELSE {0}]

Last10(q) == SubSeq(q, Len(q) - 9, Len(q))

\* 165 times the slope np.polyfit(range(10), scores, 1)[0]:
\* sum (x - 4.5) * y / sum (x - 4.5)^2, the denominator being 82.5
Trend165(scores) ==
    SumSeq([i \in 1..Len(scores) |-> (2 * (i - 1) - 9) * scores[i]])

analyze_performance(c, reps, clock) ==
    LET recent_scores == Last10(c.form_history)
        fatigue ==
            IF Len(c.form_history) >= 10
              THEN IF /\ SumSeq(recent_scores) < 60 * 10
                      /\ Trend165(recent_scores) < 0 - 2 * 165
                     THEN TRUE
                     ELSE IF /\ SumSeq(recent_scores) > 75 * 10
                             /\ Trend165(recent_scores) > 165
                            THEN FALSE
                            ELSE c.fatigue_detected
              ELSE c.fatigue_detected
        rep_rate == IF clock.recent_reps < Len(c.rep_history)
                      THEN clock.recent_reps ELSE Len(c.rep_history)
        mode ==
            IF Len(c.rep_history) >= 5
              THEN IF rep_rate > 20
                     THEN "slow_down"
                     ELSE IF rep_rate < 5 /\ reps > 5
                            THEN "encouragement"
                            ELSE c.coaching_mode
              ELSE c.coaching_mode
        rest == (fatigue \/ reps >= 15) /\ ~c.rest_recommended
    IN  [c EXCEPT !.fatigue_detected = fatigue,
                  !.coaching_mode = mode,
                  !.rest_recommended = IF rest THEN TRUE ELSE @,
                  !.rest_start_time = IF rest THEN "set" ELSE @]

\* mutant: a rest that is complete is followed by the form-based coaching
provide_coaching_FormAfterRest(c, rest_over) ==
    IF c.rest_recommended /\ c.rest_start_time # None
      THEN IF ~rest_over
             THEN [c EXCEPT !.coaching_branch = "rest"]
             ELSE [c EXCEPT !.rest_recommended = FALSE,
                            !.rest_start_time = None,
                            !.coaching_branch = "form"]
      ELSE [c EXCEPT !.coaching_branch = "form"]

\* rest_over: rest_duration >= recommended_rest_duration.  What the coach
\* says is not part of the state.
provide_coaching(c, rest_over) ==
    IF c.rest_recommended /\ c.rest_start_time # None
      THEN IF ~rest_over
             THEN [c EXCEPT !.coaching_branch = "rest"]
             ELSE [c EXCEPT !.rest_recommended = FALSE,
                            !.rest_start_time = None,
                            !.coaching_branch = "rest"]
      ELSE [c EXCEPT !.coaching_branch = "form"]

\* EnhancedSmartCoach.update.  The tracker calls it at most once in 8 s
\* (coaching_interval of IntegratedPoseCoach), the coach's own interval is
\* 5 s, so provide_coaching runs in every call.  A rest that analyze_performance
\* starts in this call has lasted no time when provide_coaching looks at it.
EnhancedSmartCoach_update(c, form_score, reps, exercise_type, clock) ==
    LET tracked ==
            [c EXCEPT
                !.form_history = DequeAppend(@, form_score, FormHistoryMaxlen),
                !.current_exercise = exercise_type,
                !.exercise_history =
                    DequeAppend(@, exercise_type, CoachHistoryMaxlen),
                !.rep_history =
                    IF c.last_rep_count # NoNumber
                       /\ reps > c.last_rep_count
                      THEN DequeAppend(@, "t", RepHistoryMaxlen)
                      ELSE @,
                !.last_rep_count = reps]
        analyzed == analyze_performance(tracked, reps, clock)
    IN  provide_coaching(analyzed, c.rest_recommended /\ clock.rest_over)

\* SmartCoach.update(form_score, reps)
SmartCoach_update(c, form_score, reps, clock) ==
    LET e == EnhancedSmartCoach_update(c, form_score, reps,
                                       c.current_exercise, clock)
        begins == e.rest_recommended /\ ~e.resting
        ends == ~e.rest_recommended /\ e.resting
    IN  [e EXCEPT !.last_form_score = form_score,
                  !.resting = IF begins THEN TRUE
                              ELSE IF ends THEN FALSE ELSE @,
                  !.rest_start = IF begins THEN "set"
                                 ELSE IF ends THEN None ELSE @]

\* EnhancedSmartCoach.reset_session, which SmartCoach inherits
EnhancedSmartCoach_reset_session(c) ==
    [c EXCEPT !.form_history = << >>,
              !.rep_history = << >>,
              !.exercise_history = << >>,
              !.fatigue_detected = FALSE,
              !.rest_recommended = FALSE,
              !.rest_start_time = None,
              !.coaching_mode = "encouragement",
              !.last_rep_count = 0]

\* mutant: the coach is updated through the enhanced path, with the
\* tracker's smoothed exercise
update_coach_EnhancedPath(form_score, clock) ==
    /\ coach' = IF coach = NoCoach
                  THEN coach
                  ELSE EnhancedSmartCoach_update(coach, form_score, rep_count,
                                                 current_exercise, clock)
    /\ UNCHANGED <<current_exercise, exercise_confidence, exercise_history,
                   rep_count, rep_states, window_confidence, tracker>>

\* IntegratedPoseCoach.update_coach: SmartCoach.update takes three
\* arguments, so the call is self.coach.update(form_score, self.rep_count)
update_coach(form_score, clock) ==
    /\ coach' = IF coach = NoCoach
                  THEN coach
                  ELSE SmartCoach_update(coach, form_score, rep_count, clock)
    /\ UNCHANGED <<current_exercise, exercise_confidence, exercise_history,
                   rep_count, rep_states, window_confidence, tracker>>

\* run, lines 461-464: self.form_scores.append(form_score) and
\* self.last_form_score = form_score
track_form_score(form_score) ==
    /\ tracker' = [form_scores |-> DequeAppend(tracker.form_scores, form_score,
                                               FormScoresMaxlen),
                   last_form_score |-> form_score]
    /\ UNCHANGED <<current_exercise, exercise_confidence, exercise_history,
                   rep_count, rep_states, window_confidence, coach>>

----------------------------------------------------------------------------
(* reset_session *)

\* mutant: every counter is reset to the phase "up"
ResetPhase_AllUp(ex) == "up"

ResetPhase(ex) == IF ex \in {"squat", "push_up"} THEN "up" ELSE "down"

reset_session ==
    /\ rep_count' = 0
    /\ current_exercise' = "unknown"
    /\ exercise_confidence' = 0
    /\ exercise_history' = <<>>
    /\ rep_states' = [ex \in DOMAIN rep_states |->
                        [rep_states[ex] EXCEPT
                            !.current_phase = ResetPhase(ex),
                            !.last_angle = None]]
    /\ window_confidence' = NoNumber
    /\ tracker' = [tracker EXCEPT !.form_scores = << >>]
    /\ coach' = IF coach = NoCoach THEN coach ELSE EnhancedSmartCoach_reset_session(coach)

----------------------------------------------------------------------------
(* The live session *)

\* angles (degrees) the joint features take in the live session
AngleValues == {80, 100, 120, 140, 160, 180}

\* (right, left) angle pairs: equal, or 20 degrees apart; their doubled
\* averages are 160, 180, ..., 360 and hit every threshold exactly
AnglePairs == {p \in AngleValues \X AngleValues : p[2] - p[1] \in {0, 20}}

\* raw labels handed to smooth_exercise_detection in the live session: the
\* three counted exercises ("unknown" is the label a session starts with;
\* SpecSmooth feeds the smoother the other labels and None)
LiveLabels == {"squat", "bicep_curl", "push_up"}

\* feature dicts holding one pair of joint angles
KneeFeatures(p) == [k \in {"right_knee_angle", "left_knee_angle"} |->
                        IF k = "right_knee_angle" THEN p[1] ELSE p[2]]
ElbowFeatures(p) == [k \in {"right_elbow_angle", "left_elbow_angle"} |->
                        IF k = "right_elbow_angle" THEN p[1] ELSE p[2]]

\* feature dicts handed to update_rep_count: the knee pair, the elbow pair,
\* or no angle at all
RepFeatures ==
    {KneeFeatures(p) : p \in AnglePairs}
    \cup {ElbowFeatures(p) : p \in AnglePairs}
    \cup {<<>>}

\* IntegratedPoseCoach.__init__ but for self.coach
InitTracker ==
    /\ current_exercise = "unknown"
    /\ exercise_confidence = 0
    /\ exercise_history = <<>>
    /\ rep_count = 0
    /\ rep_states = InitialRepStates
    /\ window_confidence = NoNumber
    /\ alternating = TRUE
    /\ squat_script = 0
    /\ tracker = InitialTracker

\* a tracker whose SmartCoach could not be constructed
InitLive == InitTracker /\ coach = NoCoach

NoAnalysis == [overall_score |-> NoNumber, issues |-> <<>>,
               recommendations |-> <<>>]

IdleScore == exercise = None /\ features = <<>> /\ analysis = NoAnalysis
IdleEstimate == form_scores = <<>> /\ estimate = NoNumber
IdleClassify == detected_label = None

\* no call of extract_comprehensive_features made yet
NoExtraction == [landmarks |-> None, shape |-> None, outcome |-> "not called",
                 features |-> <<>>]

\* AdvancedFeatureExtractor.__init__ of the module-level feature_extractor
InitExtractor == angle_history = <<>> /\ extracted = NoExtraction

\* analyze_video has not returned
NotReturned == [pending |-> TRUE]

\* no video is analysed
NoVideo == [opened |-> FALSE, length |-> 0, sampled |-> << >>]

IdleBatch ==
    /\ video = NoVideo
    /\ run_state = "ready"
    /\ runs = 0
    /\ frame_count = 0
    /\ exercise_votes = << >>
    /\ analysis_results = << >>
    /\ result = NotReturned
    /\ prev_result = NotReturned
    /\ analyzed_log = << >>

\* calculate_angle has not been called
NoPoints == [a |-> <<0, 0>>, b |-> <<0, 0>>, c |-> <<0, 0>>]

IdleAngle == angle_args = NoPoints /\ angle_returned = NoNumber

\* observer: the items put into voice_queue and the items the worker got
\* from it, in order; the speeches that raised; whether a get timed out
EmptyVoiceLog == [enqueued |-> << >>, dequeued |-> << >>,
                  speech_errors |-> 0, timed_out |-> FALSE]

\* EnhancedSmartCoach.__init__ without a voice: VOICE_AVAILABLE is False
IdleVoice ==
    /\ voice_enabled = FALSE
    /\ voice_queue = << >>
    /\ voice_thread = None
    /\ put_outcome = "none"
    /\ said = 0
    /\ voice_log = EmptyVoiceLog

\* calculate_temporal_features has not been called on its own
IdleTemporal ==
    /\ temporal_calls = 0
    /\ temporal_args = << >>
    /\ temporal_returned = << >>

IdleUnits == IdleAngle /\ IdleVoice /\ IdleTemporal

IdlePipeline == IdleClassify /\ InitExtractor /\ IdleBatch /\ IdleUnits

Init == InitLive /\ IdleScore /\ IdleEstimate /\ IdlePipeline

SmoothExerciseDetection ==
    /\ Len(exercise_history) < MaxFed
    /\ \E d \in LiveLabels : smooth_exercise_detection(d)
    /\ UNCHANGED <<alternating, squat_script, scoreVars, estVars, pipelineVars>>

UpdateRepCount ==
    /\ rep_count < MaxReps
    /\ \E f \in RepFeatures :
          update_rep_count(f) /\ squat_script' = ScriptStep(f)
    /\ UNCHANGED <<alternating, scoreVars, estVars, pipelineVars>>

ResetSession ==
    /\ reset_session
    /\ squat_script' = 0
    /\ UNCHANGED <<alternating, scoreVars, estVars, pipelineVars>>

Next == SmoothExerciseDetection \/ UpdateRepCount \/ ResetSession

Spec == Init /\ [][Next]_vars

----------------------------------------------------------------------------
(* The smoother alone, over the whole window of ten labels *)

SmoothFeed ==
    /\ \E d \in SmoothLabels \cup {None} :
          /\ smooth_exercise_detection(d)
          /\ alternating' = StillAlternating(exercise_history, d)
    /\ UNCHANGED <<squat_script, scoreVars, estVars, pipelineVars>>

SmoothReset ==
    /\ reset_session
    /\ alternating' = TRUE
    /\ UNCHANGED <<squat_script, scoreVars, estVars, pipelineVars>>

NextSmooth == SmoothFeed \/ SmoothReset

SpecSmooth == Init /\ [][NextSmooth]_vars

----------------------------------------------------------------------------
(* analyze_form_quality *)

\* features.get(key, default)
Get(f, key, default) == IF key \in DOMAIN f THEN f[key] ELSE default

\* min_visibility is kept in hundredths: 0.7 is 70, the default 1.0 is 100
VisibilityScale == 100

\* mutant: every rule costs twice its penalty
Rule_DoublePenalty(fires, penalty, issue, recommendation) ==
    [fires |-> fires, penalty |-> 2 * penalty, issue |-> issue,
     recommendation |-> recommendation]

\* one rule: whether it fires on the features, and what it then costs and says
Rule(fires, penalty, issue, recommendation) ==
    [fires |-> fires, penalty |-> penalty, issue |-> issue,
     recommendation |-> recommendation]

\* the rules of the squat branch, in evaluation order (the first two are the
\* if / elif on avg_knee)
SquatRules(f) ==
    LET avg_knee2 == f["right_knee_angle"] + f["left_knee_angle"]
        avg_hip2 == f["right_hip_angle"] + f["left_hip_angle"]
    IN  << Rule(avg_knee2 < 2 * 60, 20,
                "Squatting too deep - risk of knee injury",
                "Don't go below parallel (90 degrees)"),
           Rule(~ (avg_knee2 < 2 * 60) /\ avg_knee2 > 2 * 140, 15,
                "Not squatting deep enough",
                "Go deeper until thighs are parallel"),
           Rule(avg_hip2 < 2 * 60, 20,
                "Hips not hinging properly",
                "Push hips back more, imagine sitting in a chair"),
           Rule(Get(f, "torso_lean", 0) > 30, 15,
                "Leaning forward too much",
                "Keep chest up and core engaged"),
           Rule(Get(f, "knee_symmetry", 0) > 15, 10,
                "Uneven knee positioning",
                "Focus on balanced movement"),
           Rule(Get(f, "foot_distance", 0) < 40, 10,
                "Stance too narrow",
                "Widen stance to shoulder width"),
           Rule(Get(f, "right_knee_angle_velocity", 0) > 100, 10,
                "Moving too quickly",
                "Slow down for better control") >>

BicepCurlRules(f) ==
    << Rule(f["right_elbow_angle"] > 170 \/ f["left_elbow_angle"] > 170, 10,
            "Elbow overextending",
            "Don't fully lock out elbows"),
       Rule(Get(f, "right_elbow_angle_velocity", 0) > 150, 20,
            "Using momentum - swinging weights",
            "Use controlled movements"),
       Rule(Get(f, "torso_lean", 0) > 15, 10,
            "Leaning too much",
            "Stand straight, engage core") >>

PushUpRules(f) ==
    << Rule(f["right_elbow_angle"] + f["left_elbow_angle"] > 2 * 160, 15,
            "Not going down far enough",
            "Lower until chest nearly touches ground"),
       Rule(Get(f, "spine_angle", 180) < 160, 20,
            "Hips sagging or piking",
            "Maintain straight line from head to heels") >>

\* mutant: poor visibility costs 10 points
VisibilityRules_PenaltyTen(f) ==
    << Rule(Get(f, "min_visibility", VisibilityScale) < 70, 10,
            "Poor camera angle or lighting",
            "Improve camera position and lighting") >>

\* the visibility check made for all exercises
VisibilityRules(f) ==
    << Rule(Get(f, "min_visibility", VisibilityScale) < 70, 5,
            "Poor camera angle or lighting",
            "Improve camera position and lighting") >>

\* mutant: the visibility check is made before the rules of the exercise
FormRules_VisibilityFirst(ex, f) ==
    VisibilityRules(f) \o (CASE ex = "squat" -> SquatRules(f)
                             [] ex = "bicep_curl" -> BicepCurlRules(f)
                             [] ex = "push_up" -> PushUpRules(f)
                             [] OTHER -> << >>)

\* every rule analyze_form_quality evaluates for the exercise, in order
FormRules(ex, f) ==
    (CASE ex = "squat" -> SquatRules(f)
       [] ex = "bicep_curl" -> BicepCurlRules(f)
       [] ex = "push_up" -> PushUpRules(f)
       [] OTHER -> << >>) \o VisibilityRules(f)

RECURSIVE SumPenalties(_)
SumPenalties(rules) ==
    IF rules = << >> THEN 0
    ELSE Head(rules).penalty + SumPenalties(Tail(rules))

\* mutant: the penalties are added
ScoreAfterRules_Adds(fired) == 100 + SumPenalties(fired)

\* score = 100, then score -= penalty for every rule that fires
ScoreAfterRules(fired) == 100 - SumPenalties(fired)

\* max(score, 0)
ClampScore(score) == IF score > 0 THEN score ELSE 0

analyze_form_quality(ex, f) ==
    LET fired == SelectSeq(FormRules(ex, f), LAMBDA r : r.fires)
    IN  [overall_score |-> ClampScore(ScoreAfterRules(fired)),
         issues |-> [i \in 1..Len(fired) |-> fired[i].issue],
         recommendations |-> [i \in 1..Len(fired) |-> fired[i].recommendation]]

\* the feature vectors handed to the scorer: the values of every feature lie
\* on both sides of the thresholds of its rules
FullFeatures ==
    [right_knee_angle : {50, 150}, left_knee_angle : {50, 150},
     right_hip_angle : {50, 100}, left_hip_angle : {50, 100},
     right_elbow_angle : {100, 175}, left_elbow_angle : {100, 175},
     torso_lean : {0, 20, 40}, knee_symmetry : {0, 20},
     foot_distance : {30, 50}, spine_angle : {150, 170},
     right_knee_angle_velocity : {0, 150},
     right_elbow_angle_velocity : {0, 200},
     min_visibility : {50, 90}]

\* vectors holding the six joint angles only
AngleOnlyFeatures ==
    [right_knee_angle : {50, 150}, left_knee_angle : {50, 150},
     right_hip_angle : {50, 100}, left_hip_angle : {50, 100},
     right_elbow_angle : {100, 175}, left_elbow_angle : {100, 175}]

FeatureVectors == FullFeatures \cup AngleOnlyFeatures

InitScore ==
    /\ exercise \in ExerciseLabels
    /\ features \in FeatureVectors
    /\ analysis = NoAnalysis

AnalyzeFormQuality ==
    /\ analysis = NoAnalysis
    /\ analysis' = analyze_form_quality(exercise, features)
    /\ UNCHANGED <<exercise, features, liveVars, estVars, pipelineVars>>

InitScoreSpec == InitLive /\ InitScore /\ IdleEstimate /\ IdlePipeline

NextScore == AnalyzeFormQuality

SpecScore == InitScoreSpec /\ [][NextScore]_vars

----------------------------------------------------------------------------
(* VideoAnalyzer.estimate_rep_count *)

\* longest score list handed to the estimator
MaxScores == 10

\* mutant: a shorter minimum
MinScores_Five == 5 + 0

\* the estimator returns 0 for fewer scores than this
MinScores == 10

\* the form scores in the lists
ScoreValues == {40, 85, 90}

Squares(q) == [i \in 1..Len(q) |-> q[i] * q[i]]

\* score < np.mean(form_scores) - np.std(form_scores), in exact arithmetic:
\* with n = len, S = sum and Q = sum of squares, mean = S/n and
\* std = sqrt(n*Q - S*S)/n, so score < mean - std  iff
\* S - n*score > 0 and (S - n*score)^2 > n*Q - S*S.
BelowThreshold(score, n, S, Q) ==
    /\ S - n * score > 0
    /\ (S - n * score) * (S - n * score) > n * Q - S * S

\* the loop over form_scores: the value of low_form_periods at its end
RECURSIVE LowFormPeriods(_, _, _, _, _)

\* mutant: every score below the threshold is counted
LowFormPeriods_EveryLowScore(q, n, S, Q, in_low_period) ==
    Len(SelectSeq(q, LAMBDA score : BelowThreshold(score, n, S, Q)))

LowFormPeriods(q, n, S, Q, in_low_period) ==
    IF q = << >> THEN 0
    ELSE IF BelowThreshold(Head(q), n, S, Q) /\ ~ in_low_period
         THEN 1 + LowFormPeriods(Tail(q), n, S, Q, TRUE)
         ELSE IF ~ BelowThreshold(Head(q), n, S, Q)
              THEN LowFormPeriods(Tail(q), n, S, Q, FALSE)
              ELSE LowFormPeriods(Tail(q), n, S, Q, in_low_period)

\* mutant: the first low period is counted as a rep
RepsFromPeriods_NoSetup(low_form_periods) ==
    IF low_form_periods > 0 THEN low_form_periods ELSE 0

\* max(0, low_form_periods - 1)
RepsFromPeriods(low_form_periods) ==
    IF low_form_periods - 1 > 0 THEN low_form_periods - 1 ELSE 0

estimate_rep_count(q) ==
    IF Len(q) < MinScores THEN 0
    ELSE RepsFromPeriods(
            LowFormPeriods(q, Len(q), SumSeq(q), SumSeq(Squares(q)), FALSE))

InitEstimate ==
    /\ form_scores \in UNION {[1..n -> ScoreValues] : n \in 0..MaxScores}
    /\ estimate = NoNumber

EstimateRepCount ==
    /\ estimate = NoNumber
    /\ estimate' = estimate_rep_count(form_scores)
    /\ UNCHANGED <<form_scores, liveVars, scoreVars, pipelineVars>>

InitEstimateSpec == InitLive /\ IdleScore /\ InitEstimate /\ IdlePipeline

NextEstimate == EstimateRepCount

SpecEstimate == InitEstimateSpec /\ [][NextEstimate]_vars

----------------------------------------------------------------------------
(* detect_exercise_type *)

\* the four rule predicates of the if / elif chain; an average (r + l) / 2 is
\* compared doubled
IsSquat(f) ==
    /\ f["right_knee_angle"] + f["left_knee_angle"] < 2 * 140
    /\ f["right_hip_angle"] + f["left_hip_angle"] < 2 * 130
    /\ Get(f, "foot_distance", 0) > 40
    /\ Get(f, "spine_angle", 180) > 160

\* mutant: a missing shoulder_hip_distance counts as a standing torso
IsBicepCurl_DefaultFar(f) ==
    /\ f["right_elbow_angle"] + f["left_elbow_angle"] < 2 * 120
    /\ Get(f, "shoulder_hip_distance", 180) > 100
    /\ Get(f, "torso_lean", 0) < 20

IsBicepCurl(f) ==
    /\ f["right_elbow_angle"] + f["left_elbow_angle"] < 2 * 120
    /\ Get(f, "shoulder_hip_distance", 0) > 100
    /\ Get(f, "torso_lean", 0) < 20

\* mutant: a push-up is detected whatever the spine angle is
IsPushUp_AnySpine(f) ==
    /\ f["right_elbow_angle"] + f["left_elbow_angle"] < 2 * 130
    /\ Get(f, "shoulder_hip_distance", 0) < 80

IsPushUp(f) ==
    /\ f["right_elbow_angle"] + f["left_elbow_angle"] < 2 * 130
    /\ Get(f, "spine_angle", 0) > 160
    /\ Get(f, "shoulder_hip_distance", 0) < 80

IsPlank(f) ==
    /\ Get(f, "spine_angle", 0) > 170
    /\ Get(f, "shoulder_hip_distance", 0) < 60

\* mutant: the plank rule is tried before the push-up rule
detect_exercise_type_PlankFirst(f) ==
    IF IsSquat(f) THEN "squat"
    ELSE IF IsBicepCurl(f) THEN "bicep_curl"
    ELSE IF IsPlank(f) THEN "plank"
    ELSE IF IsPushUp(f) THEN "push_up"
    ELSE "unknown"

detect_exercise_type(f) ==
    IF IsSquat(f) THEN "squat"
    ELSE IF IsBicepCurl(f) THEN "bicep_curl"
    ELSE IF IsPushUp(f) THEN "push_up"
    ELSE IF IsPlank(f) THEN "plank"
    ELSE "unknown"

\* the feature vectors handed to the classifier: the averages and the other
\* features lie below, on and above the thresholds of the rules
ClassifierFull ==
    [right_knee_angle : {100, 170}, left_knee_angle : {100, 170},
     right_hip_angle : {100, 160}, left_hip_angle : {100, 160},
     right_elbow_angle : {100, 140}, left_elbow_angle : {100, 140},
     foot_distance : {30, 50}, spine_angle : {150, 165, 175},
     shoulder_hip_distance : {50, 70, 90, 110}, torso_lean : {10, 30}]

\* vectors holding the six joint angles only: every .get takes its default
ClassifierAnglesOnly ==
    [right_knee_angle : {100, 170}, left_knee_angle : {100, 170},
     right_hip_angle : {100, 160}, left_hip_angle : {100, 160},
     right_elbow_angle : {100, 140}, left_elbow_angle : {100, 140}]

ClassifierVectors == ClassifierFull \cup ClassifierAnglesOnly

InitDetect ==
    /\ exercise = None
    /\ features \in ClassifierVectors
    /\ analysis = NoAnalysis
    /\ detected_label = None

DetectExerciseType ==
    /\ detected_label = None
    /\ detected_label' = detect_exercise_type(features)
    /\ UNCHANGED <<liveVars, scoreVars, estVars, extractVars, batchVars,
                   unitVars>>

InitDetectSpec ==
    InitLive /\ InitDetect /\ IdleEstimate /\ InitExtractor /\ IdleBatch
    /\ IdleUnits

NextDetect == DetectExerciseType

SpecDetect == InitDetectSpec /\ [][NextDetect]_vars

----------------------------------------------------------------------------
(* extract_comprehensive_features and calculate_temporal_features *)

\* calls of extract_comprehensive_features in one process (SpecExtract)
MaxExtracted == 3

AngleHistoryMaxlen == 30

AngleKeys == {"right_knee_angle", "left_knee_angle",
              "right_hip_angle", "left_hip_angle",
              "right_elbow_angle", "left_elbow_angle"}

\* the dict `angles` and the dict `enhanced_features` computed from one set
\* of landmark points
Measured(knee, hip, elbow, spine, knee_sym, foot, lean, distance, vis) ==
    [right_knee_angle |-> knee, left_knee_angle |-> knee,
     right_hip_angle |-> hip, left_hip_angle |-> hip,
     right_elbow_angle |-> elbow, left_elbow_angle |-> elbow,
     spine_angle |-> spine, knee_symmetry |-> knee_sym,
     hip_symmetry |-> 0, shoulder_symmetry |-> 0,
     foot_distance |-> foot, torso_lean |-> lean,
     shoulder_hip_distance |-> distance,
     avg_visibility |-> vis, min_visibility |-> vis]

\* The landmark lists of well-formed joint frames.  A list of 33 landmarks is
\* named by its pose; the geometry of lines 83-129 (angles at the joints,
\* distances between midpoints, visibility summary) gives the values below.
PoseNames == {"deep_squat", "uneven_squat", "curl", "standing"}

\* landmark lists of a body near the floor (shoulders and hips 50 pixels
\* apart in the image): a push-up with a straight and with a sagging body,
\* and a plank
FloorPoses == {"push_up", "sagging_push_up", "plank"}

PoseGeometry(landmarks) ==
    CASE landmarks = "deep_squat" ->
            Measured(50, 50, 170, 170, 0, 50, 40, 120, 90)
      [] landmarks = "uneven_squat" ->
            Measured(50, 100, 170, 170, 20, 50, 0, 120, 90)
      [] landmarks = "curl" ->
            Measured(170, 170, 60, 170, 0, 50, 0, 120, 90)
      [] landmarks = "standing" ->
            Measured(170, 170, 170, 170, 0, 50, 0, 120, 90)
      [] landmarks = "push_up" ->
            Measured(170, 170, 90, 170, 0, 50, 0, 50, 50)
      [] landmarks = "sagging_push_up" ->
            Measured(170, 170, 90, 150, 0, 50, 0, 50, 50)
      [] landmarks = "plank" ->
            Measured(170, 170, 170, 175, 0, 50, 0, 50, 90)

\* get_landmark_safe returns (0, 0, 0.0) for every name when indexing the
\* landmarks raises (landmarks is None, or an empty list): every ray has
\* zero length, so calculate_angle returns 0, every distance and symmetry is
\* 0 and every visibility is 0.0
ZeroGeometry == Measured(0, 0, 0, 0, 0, 0, 0, 0, 0)

\* a list of 33 landmarks whose visibility attribute is None: np.mean of the
\* visibilities raises inside the try
NoVisibility == "no_visibility"

EmptyList == "[]"

LandmarkInputs == PoseNames \cup {NoVisibility, EmptyList, None}

\* (h, w, 3), a two-element shape, and no shape
ShapeHWC == "(h, w, 3)"
ShapeHW == "(h, w)"
ShapeInputs == {ShapeHWC, ShapeHW, None}

Abs(x) == IF x < 0 THEN 0 - x ELSE x

\* abs(current - previous) / dt with dt = 1/30.0
Velocity(current_angles, prev_angles, joint) ==
    30 * Abs(current_angles[joint] - prev_angles[joint])

IsFast(velocity) == IF velocity > 100 THEN 1 ELSE 0

\* mutant: the velocities are taken against the oldest entry of the history
calculate_temporal_features_AgainstOldest(history, current_angles) ==
    LET h == DequeAppend(history, current_angles, AngleHistoryMaxlen)
        v(joint) == Velocity(current_angles, h[1], joint)
    IN  [history |-> h,
         temporal_features |->
            IF Len(h) >= 2
            THEN [right_knee_angle_velocity |-> v("right_knee_angle"),
                  right_knee_angle_is_fast |-> IsFast(v("right_knee_angle")),
                  left_knee_angle_velocity |-> v("left_knee_angle"),
                  left_knee_angle_is_fast |-> IsFast(v("left_knee_angle")),
                  right_hip_angle_velocity |-> v("right_hip_angle"),
                  right_hip_angle_is_fast |-> IsFast(v("right_hip_angle")),
                  left_hip_angle_velocity |-> v("left_hip_angle"),
                  left_hip_angle_is_fast |-> IsFast(v("left_hip_angle")),
                  right_elbow_angle_velocity |-> v("right_elbow_angle"),
                  right_elbow_angle_is_fast |-> IsFast(v("right_elbow_angle")),
                  left_elbow_angle_velocity |-> v("left_elbow_angle"),
                  left_elbow_angle_is_fast |-> IsFast(v("left_elbow_angle"))]
            ELSE << >>]

\* calculate_temporal_features: the history after the append and the dict
\* returned
calculate_temporal_features(history, current_angles) ==
    LET h == DequeAppend(history, current_angles, AngleHistoryMaxlen)
        v(joint) == Velocity(current_angles, h[Len(h) - 1], joint)
    IN  [history |-> h,
         temporal_features |->
            IF Len(h) >= 2
            THEN [right_knee_angle_velocity |-> v("right_knee_angle"),
                  right_knee_angle_is_fast |-> IsFast(v("right_knee_angle")),
                  left_knee_angle_velocity |-> v("left_knee_angle"),
                  left_knee_angle_is_fast |-> IsFast(v("left_knee_angle")),
                  right_hip_angle_velocity |-> v("right_hip_angle"),
                  right_hip_angle_is_fast |-> IsFast(v("right_hip_angle")),
                  left_hip_angle_velocity |-> v("left_hip_angle"),
                  left_hip_angle_is_fast |-> IsFast(v("left_hip_angle")),
                  right_elbow_angle_velocity |-> v("right_elbow_angle"),
                  right_elbow_angle_is_fast |-> IsFast(v("right_elbow_angle")),
                  left_elbow_angle_velocity |-> v("left_elbow_angle"),
                  left_elbow_angle_is_fast |-> IsFast(v("left_elbow_angle"))]
            ELSE << >>]

\* the value returned, or the exception raised, by one call, and the angle
\* history after it.  outcome "features" is a return of (all_features, pts),
\* "None" a return of (None, None), "raised" an exception leaving the
\* function.
extract_comprehensive_features(landmarks, shape, history) ==
    IF shape # ShapeHWC
    THEN \* h, w, _ = shape, outside the try
         [outcome |-> "raised", features |-> << >>, history |-> history]
    ELSE IF landmarks = NoVisibility
    THEN \* the except branch; calculate_temporal_features was not reached
         [outcome |-> "None", features |-> << >>, history |-> history]
    ELSE LET geometry == IF landmarks \in {None, EmptyList}
                         THEN ZeroGeometry
                         ELSE PoseGeometry(landmarks)
             angles == [joint \in AngleKeys |-> geometry[joint]]
             t == calculate_temporal_features(history, angles)
         IN  [outcome |-> "features",
              features |-> geometry @@ t.temporal_features,
              history |-> t.history]

ExtractComprehensiveFeatures ==
    /\ Len(angle_history) < MaxExtracted
    /\ \E landmarks \in LandmarkInputs, shape \in ShapeInputs :
          \E r \in {extract_comprehensive_features(landmarks, shape,
                                                   angle_history)} :
              /\ angle_history' = r.history
              /\ extracted' = [landmarks |-> landmarks, shape |-> shape,
                               outcome |-> r.outcome, features |-> r.features]
    /\ UNCHANGED <<liveVars, scoreVars, estVars, unitVars, classifyVars,
                   batchVars>>

InitExtractSpec == InitLive /\ IdleScore /\ IdleEstimate /\ IdlePipeline

NextExtract == ExtractComprehensiveFeatures

SpecExtract == InitExtractSpec /\ [][NextExtract]_vars

\* calls of calculate_temporal_features on its own (SpecTemporal)
MaxTemporalCalls == 2

\* the dicts `current_angles` handed to calculate_temporal_features: the
\* right knee moves by 0, 3 or 4 degrees between two of them (velocity 0, 90
\* or 120), the right elbow by 0 or 110 degrees, the other joints rest
TemporalAngles ==
    {[joint \in AngleKeys |->
         CASE joint = "right_knee_angle" -> knee
           [] joint = "right_elbow_angle" -> elbow
           [] OTHER -> 170] : knee \in {90, 93, 94}, elbow \in {60, 170}}

\* the angle history a process has when the first call modelled is made:
\* empty after the import of features.py or a reset, or one entry short of
\* full after 29 frames of one resting pose
Rest(n, angles) == [i \in 1..n |-> angles]

TemporalHistories ==
    {<< >>} \cup {Rest(AngleHistoryMaxlen - 1, angles) :
                     angles \in TemporalAngles}

InitTemporal ==
    /\ angle_history \in TemporalHistories
    /\ extracted = NoExtraction
    /\ IdleTemporal

CalculateTemporalFeatures ==
    /\ temporal_calls < MaxTemporalCalls
    /\ \E current_angles \in TemporalAngles :
          \E r \in {calculate_temporal_features(angle_history,
                                                current_angles)} :
              /\ angle_history' = r.history
              /\ temporal_args' = current_angles
              /\ temporal_returned' = r.temporal_features
    /\ temporal_calls' = temporal_calls + 1
    /\ UNCHANGED <<liveVars, scoreVars, estVars, classifyVars, extracted,
                   batchVars, angleVars, voiceVars>>

InitTemporalSpec ==
    /\ InitLive /\ IdleScore /\ IdleEstimate /\ IdleClassify /\ IdleBatch
    /\ IdleAngle /\ IdleVoice
    /\ InitTemporal

NextTemporal == CalculateTemporalFeatures

SpecTemporal == InitTemporalSpec /\ [][NextTemporal]_vars

----------------------------------------------------------------------------
(* calculate_angle *)

\* the points handed to calculate_angle: the corners of a unit square.  The
\* rays between two corners have components -1, 0 and 1, so the angle at b
\* is a multiple of 45 degrees and round(np.degrees(angle), 2) is that
\* multiple exactly.
GridPoints == {0, 1} \X {0, 1}

Minus(p, q) == <<p[1] - q[1], p[2] - q[2]>>

Dot(u, v) == u[1] * v[1] + u[2] * v[2]

Cross(u, v) == u[1] * v[2] - u[2] * v[1]

\* np.linalg.norm(v) == 0
NormIsZero(v) == Dot(v, v) = 0

\* np.degrees(np.arccos(np.clip(cosine, -1.0, 1.0))) for two rays of the
\* unit square, neither of them zero
DegreesBetween(ba, bc) ==
    IF Cross(ba, bc) = 0
    THEN IF Dot(ba, bc) > 0 THEN 0 ELSE 180
    ELSE IF Dot(ba, bc) = 0 THEN 90
    ELSE IF Dot(ba, bc) > 0 THEN 45 ELSE 135

\* what 0 / 0 gives: cosine is nan and so is the angle
NaN == 0 - 2

\* mutant: no test for a zero-length ray
calculate_angle_NoZeroTest(a, b, c) ==
    LET ba == Minus(a, b)
        bc == Minus(c, b)
    IN  IF NormIsZero(ba) \/ NormIsZero(bc)
        THEN NaN
        ELSE DegreesBetween(ba, bc)

calculate_angle(a, b, c) ==
    LET ba == Minus(a, b)
        bc == Minus(c, b)
    IN  IF NormIsZero(ba) \/ NormIsZero(bc)
        THEN 0
        ELSE DegreesBetween(ba, bc)

InitAngle ==
    /\ angle_args \in [a : GridPoints, b : GridPoints, c : GridPoints]
    /\ angle_returned = NoNumber

CalculateAngle ==
    /\ angle_returned = NoNumber
    /\ angle_returned' = calculate_angle(angle_args.a, angle_args.b,
                                         angle_args.c)
    /\ UNCHANGED <<angle_args, voiceVars, temporalVars, liveVars, scoreVars, estVars,
                   classifyVars, extractVars, batchVars>>

InitAngleSpec ==
    /\ InitLive
    /\ IdleScore
    /\ IdleEstimate
    /\ IdleClassify
    /\ InitExtractor
    /\ IdleBatch
    /\ InitAngle
    /\ IdleVoice /\ IdleTemporal

NextAngle == CalculateAngle

SpecAngle == InitAngleSpec /\ [][NextAngle]_vars

----------------------------------------------------------------------------
(* VideoAnalyzer.analyze_video *)

\* frames in the analysed video (SpecBatch)
MaxFrames == 10
\* calls of analyze_video made in one process (SpecBatch)
MaxRuns == 2

\* Config.FRAME_SKIP
FRAME_SKIP == 3

\* mutant: the frames skipped are counted from one
IsSkipped_OneBased(index) == (index + 1) % FRAME_SKIP # 0

\* if frame_count % Config.FRAME_SKIP != 0: the frame is read and dropped
IsSkipped(index) == index % FRAME_SKIP # 0

\* a frame on which pose.process finds no pose_landmarks
NoPose == "no_pose"
\* a frame on which cv2.cvtColor / pose.process raises
Corrupt == "corrupt"

\* what a frame that is not skipped can be: a well-formed joint frame, a
\* joint frame without visibilities, a frame without a pose, a corrupt frame
SampledFrames ==
    PoseNames \cup FloorPoses \cup {NoVisibility, NoPose, Corrupt}

\* the number of indices 0, FRAME_SKIP, 2 * FRAME_SKIP, ... below length
SampledCount(length) == (length + FRAME_SKIP - 1) \div FRAME_SKIP

\* A video: whether cap.isOpened(), the number of frames cap.read() delivers
\* and the frames at the indices that are multiples of FRAME_SKIP.  The
\* frames between them are read and dropped unseen; they are not represented.
Videos ==
    {NoVideo} \cup
    UNION {{[opened |-> TRUE, length |-> n, sampled |-> frames] :
                frames \in [1..SampledCount(n) -> SampledFrames]} :
           n \in 0..MaxFrames}

\* the dict analysis_results as initialised (video_duration and fps are
\* properties of the container and are left out)
InitialResults ==
    [frames_analyzed |-> 0, exercise_detected |-> "unknown",
     confidence |-> 0, form_scores |-> << >>, issues_detected |-> << >>,
     recommendations |-> << >>, rep_count |-> 0, key_frames |-> << >>,
     overall_score |-> 0]

ErrorResult(message) == [error |-> message]
CouldNotOpen == "Could not open video file"
NoPoseDetected == "No pose landmarks detected in video"
AnalysisFailed == "Analysis failed"

\* exercise_votes[label] = exercise_votes.get(label, 0) + 1 on a dict kept
\* as the sequence of its items in insertion order
Vote(votes, label) ==
    IF \E i \in 1..Len(votes) : votes[i].label = label
    THEN [i \in 1..Len(votes) |->
            IF votes[i].label = label
            THEN [label |-> label, count |-> votes[i].count + 1]
            ELSE votes[i]]
    ELSE Append(votes, [label |-> label, count |-> 1])

\* mutant: among the labels with the maximal count the last inserted wins
MostLikelyExercise_LastMax(votes) ==
    votes[CHOOSE i \in 1..Len(votes) :
            /\ \A j \in 1..Len(votes) : votes[j].count <= votes[i].count
            /\ \A j \in (i + 1)..Len(votes) : votes[j].count < votes[i].count
         ].label

\* max(exercise_votes, key=exercise_votes.get): the first key, in insertion
\* order, holding the maximal count
MostLikelyExercise(votes) ==
    votes[CHOOSE i \in 1..Len(votes) :
            /\ \A j \in 1..Len(votes) : votes[j].count <= votes[i].count
            /\ \A j \in 1..(i - 1) : votes[j].count < votes[i].count
         ].label

\* sum(exercise_votes.values())
TotalVotes(votes) == SumSeq([i \in 1..Len(votes) |-> votes[i].count])

VotesOf(votes, label) ==
    votes[CHOOSE i \in 1..Len(votes) : votes[i].label = label].count

\* mutant: a frame scoring exactly 70 is a key frame too
IsKeyFrame_Inclusive(score) == score <= 70

\* analysis["overall_score"] < 70
IsKeyFrame(score) == score < 70

\* analysis["issues"][:2]
FirstTwo(q) == SubSeq(q, 1, IF Len(q) < 2 THEN Len(q) ELSE 2)

\* the entry appended to key_frames (image_path is derived from the frame
\* index and is left out)
KeyFrame(frame, a) ==
    [frame |-> frame, score |-> a.overall_score, issues |-> FirstTwo(a.issues)]

\* mutant: issues and recommendations are collected from key frames only
Accumulate_KeyFrameIssuesOnly(results, frame, a) ==
    [results EXCEPT
        !.form_scores = Append(@, a.overall_score),
        !.issues_detected = IF IsKeyFrame(a.overall_score)
                            THEN @ \o a.issues ELSE @,
        !.recommendations = IF IsKeyFrame(a.overall_score)
                            THEN @ \o a.recommendations ELSE @,
        !.key_frames = IF IsKeyFrame(a.overall_score)
                       THEN Append(@, KeyFrame(frame, a)) ELSE @,
        !.frames_analyzed = @ + 1]

\* the body of `if features and coords:` for one frame
Accumulate(results, frame, a) ==
    [results EXCEPT
        !.form_scores = Append(@, a.overall_score),
        !.issues_detected = @ \o a.issues,
        !.recommendations = @ \o a.recommendations,
        !.key_frames = IF IsKeyFrame(a.overall_score)
                       THEN Append(@, KeyFrame(frame, a)) ELSE @,
        !.frames_analyzed = @ + 1]

\* the branch `if exercise_votes:` after the loop
Aggregate(votes, results) ==
    LET most_likely_exercise == MostLikelyExercise(votes)
    IN  [results EXCEPT
            !.exercise_detected = most_likely_exercise,
            !.confidence = (VotesOf(votes, most_likely_exercise) * ConfScale)
                               \div TotalVotes(votes),
            !.overall_score = IF results.form_scores # << >>
                              THEN SumSeq(results.form_scores)
                                       \div Len(results.form_scores)
                              ELSE @,
            !.rep_count = estimate_rep_count(results.form_scores),
            !.issues_detected = Range(@),
            !.recommendations = Range(@)]

\* mutant: without the else branch the initial dict is returned
FinalResult_NoElse(votes, results) ==
    IF votes # << >> THEN Aggregate(votes, results) ELSE results

\* the value returned after the loop
FinalResult(votes, results) ==
    IF votes # << >> THEN Aggregate(votes, results)
    ELSE ErrorResult(NoPoseDetected)

InitBatch ==
    /\ video \in Videos
    /\ run_state = "ready"
    /\ runs = 0
    /\ frame_count = 0
    /\ exercise_votes = << >>
    /\ analysis_results = << >>
    /\ result = NotReturned
    /\ prev_result = NotReturned
    /\ analyzed_log = << >>

\* analyze_video up to the loop: lines 46-78
StartAnalysis ==
    /\ run_state \in {"ready", "returned"}
    /\ runs < MaxRuns
    /\ runs' = runs + 1
    /\ prev_result' = result
    /\ analyzed_log' = << >>
    /\ IF video.opened
       THEN /\ run_state' = "running"
            /\ analysis_results' = InitialResults
            /\ exercise_votes' = << >>
            /\ frame_count' = 0
            /\ result' = NotReturned
       ELSE /\ run_state' = "returned"
            /\ result' = ErrorResult(CouldNotOpen)
            /\ UNCHANGED <<analysis_results, exercise_votes, frame_count>>
    /\ UNCHANGED <<video, liveVars, scoreVars, estVars, unitVars, classifyVars,
                   extractVars>>

\* one pass of the loop over a frame that is skipped: lines 82-89
SkipFrame ==
    /\ run_state = "running"
    /\ frame_count < video.length
    /\ IsSkipped(frame_count)
    /\ frame_count' = frame_count + 1
    /\ UNCHANGED <<video, run_state, runs, exercise_votes, analysis_results,
                   result, prev_result, analyzed_log, liveVars, scoreVars,
                   estVars, unitVars, classifyVars, extractVars>>

\* one pass of the loop over a frame that is not skipped: lines 82-128, and
\* lines 134-135 and 169-171 when the pass raises
ProcessFrame ==
    /\ run_state = "running"
    /\ frame_count < video.length
    /\ ~ IsSkipped(frame_count)
    /\ LET frame == video.sampled[(frame_count \div FRAME_SKIP) + 1]
       IN  IF frame = Corrupt
           THEN /\ run_state' = "returned"
                /\ result' = ErrorResult(AnalysisFailed)
                /\ UNCHANGED <<frame_count, exercise_votes, analysis_results,
                               angle_history, analyzed_log>>
           ELSE IF frame = NoPose
           THEN /\ frame_count' = frame_count + 1
                /\ UNCHANGED <<run_state, result, exercise_votes,
                               analysis_results, angle_history, analyzed_log>>
           ELSE \E r \in {extract_comprehensive_features(frame, ShapeHWC,
                                                         angle_history)} :
                /\ angle_history' = r.history
                /\ frame_count' = frame_count + 1
                /\ UNCHANGED <<run_state, result>>
                /\ IF r.outcome = "features"
                   THEN \E detected \in {detect_exercise_type(r.features)} :
                        \E a \in {analyze_form_quality(detected, r.features)} :
                          /\ exercise_votes' = Vote(exercise_votes, detected)
                          /\ analysis_results' =
                                Accumulate(analysis_results, frame_count, a)
                          /\ analyzed_log' = Append(analyzed_log,
                                [frame |-> frame_count, exercise |-> detected,
                                 score |-> a.overall_score,
                                 issues |-> a.issues,
                                 features |-> r.features])
                   ELSE UNCHANGED <<exercise_votes, analysis_results,
                                    analyzed_log>>
    /\ UNCHANGED <<video, runs, prev_result, extracted, liveVars, scoreVars,
                   estVars, unitVars, classifyVars>>

\* cap.read() reports the end of the video: lines 83-84 and 134-167
EndOfVideo ==
    /\ run_state = "running"
    /\ frame_count = video.length
    /\ run_state' = "returned"
    /\ \E final \in {FinalResult(exercise_votes, analysis_results)} :
          /\ result' = final
          /\ analysis_results' = IF exercise_votes # << >> THEN final
                                 ELSE analysis_results
    /\ UNCHANGED <<video, runs, frame_count, exercise_votes, prev_result,
                   analyzed_log, liveVars, scoreVars, estVars, unitVars, classifyVars,
                   extractVars>>

InitBatchSpec ==
    InitLive /\ IdleScore /\ IdleEstimate /\ IdleClassify /\ InitExtractor
        /\ InitBatch /\ IdleUnits

NextBatch == StartAnalysis \/ SkipFrame \/ ProcessFrame \/ EndOfVideo

SpecBatch == InitBatchSpec /\ [][NextBatch]_vars

----------------------------------------------------------------------------
(* The live session with its coach and the feature extractor *)

\* labels fed to the smoother before a reset (SpecSession)
MaxSessionFed == 5
\* reps counted before a reset (SpecSession); the coach recommends a rest
\* from 15 reps on
MaxSessionReps == 15
\* frames extracted in the process, and scores tracked and coach updates
\* made before a reset (SpecSession)
MaxSessionCalls == 1

\* what the camera shows: the bottom of a squat, and standing upright
SessionPoses == {"deep_squat", "standing"}

\* raw labels handed to smooth_exercise_detection
SessionLabels == {"squat"}

\* overall scores of analyze_form_quality: the deep squat, and no issue
SessionScores == {45, 100}

\* run, line 437: extract_comprehensive_features(landmarks, (h, w, 3))
SessionExtract ==
    /\ Len(angle_history) < MaxSessionCalls
    /\ \E landmarks \in SessionPoses :
          \E r \in {extract_comprehensive_features(landmarks, ShapeHWC,
                                                   angle_history)} :
              /\ angle_history' = r.history
              /\ extracted' = [landmarks |-> landmarks, shape |-> ShapeHWC,
                               outcome |-> r.outcome, features |-> r.features]
    /\ UNCHANGED <<liveVars, scoreVars, estVars, unitVars, classifyVars,
                   batchVars>>

\* run, line 442
SessionSmooth ==
    /\ Len(exercise_history) < MaxSessionFed
    /\ \E d \in SessionLabels : smooth_exercise_detection(d)
    /\ UNCHANGED <<alternating, squat_script, scoreVars, estVars, pipelineVars>>

\* run, line 448
SessionRepCount ==
    /\ rep_count < MaxSessionReps
    /\ \E landmarks \in SessionPoses :
          update_rep_count(PoseGeometry(landmarks))
    /\ UNCHANGED <<alternating, squat_script, scoreVars, estVars, pipelineVars>>

\* run, lines 452-459
SessionUpdateCoach ==
    /\ Len(coach.form_history) < MaxSessionCalls
    /\ \E form_score \in SessionScores, clock \in Clocks(coach) :
          update_coach(form_score, clock)
    /\ UNCHANGED <<alternating, squat_script, scoreVars, estVars, pipelineVars>>

\* run, lines 461-464
SessionTrackScore ==
    /\ Len(tracker.form_scores) < MaxSessionCalls
    /\ \E form_score \in SessionScores : track_form_score(form_score)
    /\ UNCHANGED <<alternating, squat_script, scoreVars, estVars, pipelineVars>>

\* run, lines 502-503: the key 'r'
SessionReset ==
    /\ reset_session
    /\ UNCHANGED <<alternating, squat_script, scoreVars, estVars, pipelineVars>>

InitSessionSpec ==
    /\ InitTracker
    /\ coach = InitialCoach
    /\ IdleScore
    /\ IdleEstimate
    /\ IdlePipeline

NextSession ==
    \/ SessionExtract
    \/ SessionSmooth
    \/ SessionRepCount
    \/ SessionUpdateCoach
    \/ SessionTrackScore
    \/ SessionReset

SpecSession == InitSessionSpec /\ [][NextSession]_vars

----------------------------------------------------------------------------
(* The coach alone: SmartCoach.update and reset_session called directly *)

\* calls of update before a reset (SpecCoach)
MaxCoachUpdates == 3

\* the argument `reps` of update: below and from the 15 reps at which a
\* rest is recommended
CoachReps == {14, 15, 16}

\* the argument `form_score`: poor form, form that needs improvement, and
\* excellent form
CoachScores == {30, 45, 100}

CoachUpdate ==
    /\ Len(coach.form_history) < MaxCoachUpdates
    /\ \E form_score \in CoachScores, reps \in CoachReps,
          clock \in Clocks(coach) :
          coach' = SmartCoach_update(coach, form_score, reps, clock)
    /\ UNCHANGED <<current_exercise, exercise_confidence, exercise_history,
                   rep_count, rep_states, window_confidence, alternating,
                   squat_script, tracker, scoreVars, estVars, pipelineVars>>

CoachReset ==
    /\ coach.form_history # << >>
    /\ coach' = EnhancedSmartCoach_reset_session(coach)
    /\ UNCHANGED <<current_exercise, exercise_confidence, exercise_history,
                   rep_count, rep_states, window_confidence, alternating,
                   squat_script, tracker, scoreVars, estVars, pipelineVars>>

InitCoachSpec ==
    /\ InitTracker
    /\ coach = InitialCoach
    /\ IdleScore
    /\ IdleEstimate
    /\ IdlePipeline

NextCoach == CoachUpdate \/ CoachReset

SpecCoach == InitCoachSpec /\ [][NextCoach]_vars

----------------------------------------------------------------------------
(* The voice queue of EnhancedSmartCoach: say_coaching and voice_worker *)

\* say_coaching calls made (SpecVoice)
MaxSaid == 3

\* mutant: a queue of two places
VoiceQueueMaxsize_Two == 1 + 1

\* queue.Queue(): maxsize 0, a queue without a bound
VoiceQueueMaxsize == 0

\* two of the coaching messages of provide_coaching
CoachingMessages == {"Take a breather. You've earned it!",
                     "Rest complete! Ready for more?"}

\* the sentinel of cleanup
Stop == "STOP"

\* Queue.put(item, timeout=1): a queue with a bound that is full makes the
\* caller wait for a place, and raises queue.Full after the timeout; the
\* message is then skipped.  Any other queue takes the item at once.
QueueIsFull(q) == VoiceQueueMaxsize > 0 /\ Len(q) >= VoiceQueueMaxsize

\* EnhancedSmartCoach.__init__ with voice_enabled = True, and with
\* pyttsx3 missing
InitVoice ==
    /\ voice_enabled \in BOOLEAN
    /\ voice_queue = << >>
    /\ voice_thread = IF voice_enabled THEN "waiting" ELSE None
    /\ put_outcome = "none"
    /\ said = 0
    /\ voice_log = EmptyVoiceLog

\* say_coaching(message), from its call to its return
SayCoaching ==
    /\ said < MaxSaid
    /\ \E message \in CoachingMessages :
          IF ~voice_enabled
          THEN UNCHANGED <<voice_queue, put_outcome, voice_log>>
          ELSE IF QueueIsFull(voice_queue)
          THEN put_outcome' = "waited" /\ UNCHANGED <<voice_queue, voice_log>>
          ELSE /\ put_outcome' = "enqueued"
               /\ voice_queue' = Append(voice_queue, message)
               /\ voice_log' = [voice_log EXCEPT
                                   !.enqueued = Append(@, message)]
    /\ said' = said + 1
    /\ UNCHANGED <<voice_enabled, voice_thread, angleVars, temporalVars,
                   liveVars, scoreVars, estVars, classifyVars, extractVars,
                   batchVars>>

\* voice_worker: self.voice_queue.get(timeout=1) returns a message
VoiceWorkerGet ==
    /\ voice_thread = "waiting"
    /\ voice_queue # << >>
    /\ voice_queue' = Tail(voice_queue)
    /\ voice_thread' = IF Head(voice_queue) = Stop
                         THEN "stopped" ELSE "speaking"
    /\ voice_log' = [voice_log EXCEPT
                        !.dequeued = Append(@, Head(voice_queue))]
    /\ UNCHANGED <<voice_enabled, put_outcome, said, angleVars, temporalVars,
                   liveVars, scoreVars, estVars, classifyVars, extractVars,
                   batchVars>>

\* voice_worker: get(timeout=1) raises queue.Empty; `continue`
VoiceWorkerTimeout ==
    /\ voice_thread = "waiting"
    /\ voice_queue = << >>
    /\ voice_log' = [voice_log EXCEPT !.timed_out = TRUE]
    /\ UNCHANGED <<voice_enabled, voice_queue, voice_thread, put_outcome,
                   said, angleVars, temporalVars, liveVars, scoreVars,
                   estVars, classifyVars, extractVars, batchVars>>

\* voice_worker: say and runAndWait have returned
VoiceWorkerSpoken ==
    /\ voice_thread = "speaking"
    /\ voice_thread' = "waiting"
    /\ UNCHANGED <<voice_enabled, voice_queue, put_outcome, said, voice_log,
                   angleVars, temporalVars, liveVars, scoreVars, estVars,
                   classifyVars, extractVars, batchVars>>

\* mutant: an exception of the voice engine ends the worker
VoiceWorkerSpeechError_Ends ==
    /\ voice_thread = "speaking"
    /\ voice_thread' = "stopped"
    /\ voice_log' = [voice_log EXCEPT !.speech_errors = @ + 1]
    /\ UNCHANGED <<voice_enabled, voice_queue, put_outcome, said,
                   angleVars, temporalVars, liveVars, scoreVars, estVars,
                   classifyVars, extractVars, batchVars>>

\* voice_worker: say or runAndWait raises; `except Exception` prints and the
\* loop goes on
VoiceWorkerSpeechError ==
    /\ voice_thread = "speaking"
    /\ voice_thread' = "waiting"
    /\ voice_log' = [voice_log EXCEPT !.speech_errors = @ + 1]
    /\ UNCHANGED <<voice_enabled, voice_queue, put_outcome, said,
                   angleVars, temporalVars, liveVars, scoreVars, estVars,
                   classifyVars, extractVars, batchVars>>

\* cleanup: the sentinel is put; join(timeout=2) does not change the state
Cleanup ==
    /\ voice_enabled /\ voice_thread # None
    /\ Stop \notin Range(voice_queue)
    /\ ~QueueIsFull(voice_queue)
    /\ voice_queue' = Append(voice_queue, Stop)
    /\ voice_log' = [voice_log EXCEPT !.enqueued = Append(@, Stop)]
    /\ UNCHANGED <<voice_enabled, voice_thread, put_outcome, said,
                   angleVars, temporalVars, liveVars, scoreVars, estVars,
                   classifyVars, extractVars, batchVars>>

InitVoiceSpec ==
    /\ InitLive
    /\ IdleScore
    /\ IdleEstimate
    /\ IdleClassify
    /\ InitExtractor
    /\ IdleBatch
    /\ IdleAngle /\ IdleTemporal
    /\ InitVoice

NextVoice ==
    \/ SayCoaching
    \/ VoiceWorkerGet
    \/ VoiceWorkerTimeout
    \/ VoiceWorkerSpoken
    \/ VoiceWorkerSpeechError
    \/ Cleanup

SpecVoice == InitVoiceSpec /\ [][NextVoice]_vars

\* the worker thread keeps being scheduled: a get on a queue that holds an
\* item returns, and a speech ends
VoiceWorkerRuns ==
    /\ WF_vars(VoiceWorkerGet)
    /\ WF_vars(VoiceWorkerSpoken \/ VoiceWorkerSpeechError)

SpecVoiceLive == InitVoiceSpec /\ [][NextVoice]_vars /\ VoiceWorkerRuns

----------------------------------------------------------------------------
(* Claims on the live hysteresis counter *)

CountedExercises == {"squat", "push_up", "bicep_curl"}
ClosedPhase(ex) == IF ex = "bicep_curl" THEN "up" ELSE "down"
OpenPhase(ex) == IF ex = "bicep_curl" THEN "down" ELSE "up"

\* the feature dict that carries the angle pair p for exercise ex
JointFeatures(ex, p) ==
    IF ex = "squat" THEN KneeFeatures(p) ELSE ElbowFeatures(p)

\* C1: an update of the active exercise whose averaged angle is above the
\* high threshold while the phase is the closed phase returns the phase to
\* the open phase and increases rep_count by exactly one; an update whose
\* angle is below the low threshold while the phase is the open phase moves
\* to the closed phase and leaves rep_count unchanged.  (A step of Spec that
\* keeps the label window while an exercise is active is an update.)
C1_HysteresisStep ==
    [][\A ex \in CountedExercises :
        (current_exercise = ex /\ exercise_history' = exercise_history)
        => /\ rep_states[ex].current_phase = ClosedPhase(ex)
              => \/ /\ rep_states'[ex].current_phase = OpenPhase(ex)
                    /\ rep_count' = rep_count + 1
                 \/ ~ \E p \in AnglePairs :
                        /\ p[1] + p[2] > 2 * rep_states[ex].threshold_high
                        /\ update_rep_count(JointFeatures(ex, p))
           /\ rep_states[ex].current_phase = OpenPhase(ex)
              => \/ /\ rep_states'[ex].current_phase = ClosedPhase(ex)
                    /\ rep_count' = rep_count
                 \/ ~ \E p \in AnglePairs :
                        /\ p[1] + p[2] < 2 * rep_states[ex].threshold_low
                        /\ update_rep_count(JointFeatures(ex, p))]_vars

\* a push-up has been closed and counted while a squat is half done
C1_Witness ==
    /\ rep_count = 1
    /\ current_exercise = "push_up"
    /\ rep_states["push_up"].current_phase = "up"
    /\ rep_states["squat"].current_phase = "down"
    /\ rep_states["bicep_curl"].current_phase = "down"

\* C2: from a fresh session whose current exercise is squat, feeding
\* update_rep_count the average knee angles 170, 100, 170 ends with
\* rep_count = 1, and feeding only 170, 100 ends with rep_count = 0.
C2_SquatScript ==
    /\ squat_script = 3 => rep_count = 1
    /\ squat_script = 2 => rep_count = 0

C2_Witness ==
    /\ squat_script = 3
    /\ current_exercise = "squat"
    /\ rep_states["squat"].current_phase = "up"

\* C3 as claimed: over every step of a live session, reset_session
\* included, the rep count never decreases.
C3_NeverDecreases == [][rep_count' >= rep_count]_vars

\* C3 as amended: the rep count never decreases over a step other than
\* reset_session, and reset_session sets it to 0.
C3_DecreasesOnlyOnReset ==
    [][\/ rep_count' >= rep_count
       \/ reset_session /\ rep_count' = 0]_vars

\* reps of two exercises were counted in one session
C3_Witness ==
    /\ rep_count = 2
    /\ current_exercise = "bicep_curl"
    /\ rep_states["squat"].current_phase = "up"
    /\ rep_states["bicep_curl"].current_phase = "down"
    /\ Len(exercise_history) = 8

\* features f make no qualifying crossing in the current state: the current
\* exercise has no counter, an angle feature of its joint is missing, the
\* doubled average angle lies between the doubled thresholds (inclusive),
\* or it lies beyond the threshold that does not apply to the phase
NoCrossing(f) ==
    LET ex == current_exercise
        keys == IF ex = "squat"
                THEN {"right_knee_angle", "left_knee_angle"}
                ELSE {"right_elbow_angle", "left_elbow_angle"}
        angle2 == IF ex = "squat"
                  THEN f["right_knee_angle"] + f["left_knee_angle"]
                  ELSE f["right_elbow_angle"] + f["left_elbow_angle"]
    IN  \/ ex \notin CountedExercises
        \/ ~ (keys \subseteq DOMAIN f)
        \/ /\ angle2 >= 2 * rep_states[ex].threshold_low
           /\ angle2 <= 2 * rep_states[ex].threshold_high
        \/ /\ rep_states[ex].current_phase = OpenPhase(ex)
           /\ angle2 > 2 * rep_states[ex].threshold_high
        \/ /\ rep_states[ex].current_phase = ClosedPhase(ex)
           /\ angle2 < 2 * rep_states[ex].threshold_low

\* C26: update_rep_count leaves every phase and the rep count unchanged
\* when no qualifying crossing occurs, and it never changes the phase of an
\* exercise other than the current one.  (A step that changes a counter or
\* the rep count is checked against every call of update_rep_count that
\* makes it.)
C26_NoCrossingNoChange ==
    [][(rep_states' # rep_states \/ rep_count' # rep_count)
       => \A f \in RepFeatures :
             update_rep_count(f)
             => /\ ~ NoCrossing(f)
                /\ \A ex \in DOMAIN rep_states \ {current_exercise} :
                       rep_states'[ex] = rep_states[ex]]_vars

\* a squat session in which update_rep_count was called, off the script
\* 170, 100, 170, and every call so far left the counters as they were
C26_Witness ==
    /\ squat_script = OffScript
    /\ current_exercise = "squat"
    /\ rep_count = 0
    /\ rep_states = InitialRepStates

AllOpen == \A ex \in CountedExercises :
              rep_states[ex].current_phase = OpenPhase(ex)

\* C38: a call of update_rep_count raises the rep count by one at most.
\* Every counter is open at the start and after a reset; a counter closes
\* only on an update of its own exercise with the angle below its low
\* threshold, which counts nothing; and a rep is counted only on an update
\* that opens the closed counter of the current exercise.  So every counted
\* rep of an exercise follows, since the rep of that exercise before it (or
\* the start or reset), an update of that exercise below its low threshold,
\* and the reps of an exercise never exceed its open-to-closed transitions,
\* whichever exercise was active in between.
C38_EveryRepFollowsAClosing ==
    /\ AllOpen
    /\ [][/\ rep_count' <= rep_count + 1
          /\ reset_session => AllOpen'
          /\ rep_count' > rep_count =>
                /\ current_exercise \in CountedExercises
                /\ rep_states[current_exercise].current_phase
                      = ClosedPhase(current_exercise)
                /\ rep_states'[current_exercise].current_phase
                      = OpenPhase(current_exercise)
          /\ \A ex \in CountedExercises :
                (/\ rep_states[ex].current_phase = OpenPhase(ex)
                 /\ rep_states'[ex].current_phase = ClosedPhase(ex))
                => /\ current_exercise = ex
                   /\ rep_count' = rep_count
                   /\ \E p \in AnglePairs :
                         /\ p[1] + p[2] < 2 * rep_states[ex].threshold_low
                         /\ update_rep_count(JointFeatures(ex, p))
          /\ \A ex \in CountedExercises :
                (/\ rep_states[ex].current_phase = ClosedPhase(ex)
                 /\ rep_states'[ex].current_phase = OpenPhase(ex))
                => \/ reset_session
                   \/ current_exercise = ex /\ rep_count' = rep_count + 1
         ]_vars

\* a squat was closed, the active exercise became bicep_curl, and a curl
\* was closed and counted while the squat stays closed
C38_Witness ==
    /\ rep_count = 1
    /\ current_exercise = "bicep_curl"
    /\ rep_states["bicep_curl"].current_phase = "down"
    /\ rep_states["squat"].current_phase = "down"
    /\ rep_states["push_up"].current_phase = "up"

----------------------------------------------------------------------------
(* Claims on the label smoother *)

\* C4: from a fresh or reset session, feeding the same raw label L five
\* times in a row makes the smoothed current exercise L with confidence 1.0
\* on the fifth call.
C4_FiveInARow ==
    \A L \in ExerciseLabels :
        (/\ Len(exercise_history) = 5
         /\ \A i \in 1..5 : exercise_history[i] = L)
        => /\ current_exercise = L
           /\ exercise_confidence = ConfScale

C4_Witness ==
    /\ exercise_history = <<"squat", "squat", "squat", "squat", "squat">>
    /\ current_exercise = "squat"
    /\ exercise_confidence = ConfScale

\* C5: from a fresh session, feeding a strictly alternating sequence of two
\* different raw labels (of any length) never yields a window confidence
\* above 0.6, and the smoothed current exercise never changes from its
\* initial value "unknown".
C5_AlternatingNeverSwitches ==
    (alternating /\ Len(exercise_history) >= 2)
    => /\ window_confidence <= ConfidenceThreshold
       /\ current_exercise = "unknown"

\* C6: smooth_exercise_detection replaces the current exercise only on a
\* call where the majority label of the window has confidence >= 0.6; on
\* every other call the current exercise and its published confidence keep
\* their previous values.  (A step of SpecSmooth that leaves a non-empty
\* window is a call of smooth_exercise_detection.)
C6_ReplaceOnlyWhenConfident ==
    [][exercise_history' # <<>>
       => \/ UNCHANGED <<current_exercise, exercise_confidence>>
          \/ /\ 10 * ExerciseCount(exercise_history', current_exercise')
                    >= 6 * Len(exercise_history')
             /\ \A other \in ExerciseLabels :
                    ExerciseCount(exercise_history', other)
                        <= ExerciseCount(exercise_history', current_exercise')
             /\ exercise_confidence' * Len(exercise_history')
                    = ConfScale * ExerciseCount(exercise_history',
                                                current_exercise')]_vars

\* a label published earlier is kept by a call whose window has no label
\* with confidence 0.6
C6_Witness ==
    /\ window_confidence # NoNumber
    /\ window_confidence < ConfidenceThreshold
    /\ current_exercise = "squat"
    /\ exercise_confidence >= ConfidenceThreshold

\* the count of the most frequent label of window h, and its share of the
\* window on the confidence scale
TopCount(h) ==
    CHOOSE n \in {ExerciseCount(h, ex) : ex \in Range(h)} :
        \A ex \in Range(h) : n >= ExerciseCount(h, ex)

TopShare(h) == (TopCount(h) * ConfScale) \div Len(h)

ConfidenceInUnitInterval ==
    exercise_confidence >= 0 /\ exercise_confidence <= ConfScale

\* C27 as stated: the published confidence lies in [0,1] and equals the
\* share of the most frequent label in the window as it stands after the
\* latest frame (for a window of at least five labels, on which the code
\* computes a confidence).
C27_PublishedIsShareOfLatestWindow ==
    /\ ConfidenceInUnitInterval
    /\ Len(exercise_history) >= 5
          => exercise_confidence = TopShare(exercise_history)

\* C27, amended: the published confidence lies in [0,1]; when the window
\* after the latest frame holds at least five labels and its most frequent
\* label has a share of at least 0.6, the published confidence is that
\* share; otherwise it is the value published last, a share of at least
\* 0.6, or 0 when nothing was published since the start or the reset.
C27_PublishedIsLastConfidentShare ==
    /\ ConfidenceInUnitInterval
    /\ IF /\ Len(exercise_history) >= 5
          /\ TopShare(exercise_history) >= ConfidenceThreshold
       THEN exercise_confidence = TopShare(exercise_history)
       ELSE \/ exercise_confidence = 0
            \/ exercise_confidence >= ConfidenceThreshold

\* a full window whose most frequent label holds half of it, while the
\* confidence published is still the 0.6 of an earlier window
C27_Witness ==
    /\ Len(exercise_history) = HistoryMaxlen
    /\ 2 * TopShare(exercise_history) = ConfScale
    /\ exercise_confidence = ConfidenceThreshold

\* the six most recent labels of the window are all the label l
LastSixAre(l) ==
    /\ Len(exercise_history) >= 6
    /\ \A i \in (Len(exercise_history) - 5)..Len(exercise_history) :
          exercise_history[i] = l

\* C36: once the six most recent raw labels given to
\* smooth_exercise_detection are all the same label, the smoothed current
\* exercise is that label, whatever the window held before them.
C36_SixInARowAlwaysSwitch ==
    \A l \in ExerciseLabels : LastSixAre(l) => current_exercise = l

\* a full window of four labels of one exercise followed by six of another:
\* the share 6/10 is just enough, and the smoothed label is the later one
C36_Witness ==
    /\ Len(exercise_history) = HistoryMaxlen
    /\ \A i \in 1..4 : exercise_history[i] = exercise_history[1]
    /\ exercise_history[1] # exercise_history[HistoryMaxlen]
    /\ LastSixAre(exercise_history[HistoryMaxlen])
    /\ current_exercise = exercise_history[HistoryMaxlen]
    /\ exercise_confidence = ConfidenceThreshold

\* C37: the published exercise_confidence is 0 (no label update since the
\* start or the last reset) or lies in [0.6, 1]; a value strictly between 0
\* and 0.6 is never published.
C37_ConfidenceZeroOrAtLeastThreshold ==
    \/ exercise_confidence = 0
    \/ /\ 10 * exercise_confidence >= 6 * ConfScale
       /\ exercise_confidence <= ConfScale

\* a confidence of 0.6 was published; the window of nine labels now has a
\* top share of 5/9, which is not published
C37_Witness ==
    /\ exercise_confidence = ConfidenceThreshold
    /\ Len(exercise_history) = 9
    /\ 9 * window_confidence = 5 * ConfScale

----------------------------------------------------------------------------
(* Claims on the form scorer *)

\* C7: for every exercise label and every feature vector,
\* analyze_form_quality returns a score in [0,100]; no combination of fired
\* rules drives the returned score below 0 or above 100.
C7_ScoreInRange ==
    analysis # NoAnalysis
    => analysis.overall_score >= 0 /\ analysis.overall_score <= 100

\* the maximally penalised input: every squat rule and the visibility rule
C7_Witness ==
    /\ exercise = "squat"
    /\ Len(analysis.issues) = 7
    /\ analysis.overall_score = 10

\* the rule table as the claim reads it: for every issue string its
\* recommendation, its fixed penalty and its place in the order of the rules
\* (the visibility rule after the rules of every exercise)
RuleTable ==
    { <<"Squatting too deep - risk of knee injury",
        "Don't go below parallel (90 degrees)", 20, 1>>,
      <<"Not squatting deep enough",
        "Go deeper until thighs are parallel", 15, 2>>,
      <<"Hips not hinging properly",
        "Push hips back more, imagine sitting in a chair", 20, 3>>,
      <<"Leaning forward too much",
        "Keep chest up and core engaged", 15, 4>>,
      <<"Uneven knee positioning",
        "Focus on balanced movement", 10, 5>>,
      <<"Stance too narrow",
        "Widen stance to shoulder width", 10, 6>>,
      <<"Moving too quickly",
        "Slow down for better control", 10, 7>>,
      <<"Elbow overextending",
        "Don't fully lock out elbows", 10, 1>>,
      <<"Using momentum - swinging weights",
        "Use controlled movements", 20, 2>>,
      <<"Leaning too much",
        "Stand straight, engage core", 10, 3>>,
      <<"Not going down far enough",
        "Lower until chest nearly touches ground", 15, 1>>,
      <<"Hips sagging or piking",
        "Maintain straight line from head to heels", 20, 2>>,
      <<"Poor camera angle or lighting",
        "Improve camera position and lighting", 5, 8>> }

RowOf(issue) == CHOOSE row \in RuleTable : row[1] = issue

\* the issues of the rules that fire for exercise ex on features f
FiredIssues(ex, f) ==
    {FormRules(ex, f)[i].issue :
        i \in {j \in 1..Len(FormRules(ex, f)) : FormRules(ex, f)[j].fires}}

\* C28: analyze_form_quality returns 100 minus the sum of the fixed
\* penalties of the rules that fired, floored at 0; issues and
\* recommendations hold the strings of exactly the fired rules, one of each
\* per fired rule, in the rule order of the exercise with the visibility
\* rule last.
C28_ScoreAndListsOfFiredRules ==
    analysis # NoAnalysis =>
        LET issues == analysis.issues
            recommendations == analysis.recommendations
            fired == FiredIssues(exercise, features)
        IN  /\ Range(issues) = fired
            /\ Len(issues) = Cardinality(fired)
            /\ Len(recommendations) = Len(issues)
            /\ \A i \in 1..Len(issues) :
                   recommendations[i] = RowOf(issues[i])[2]
            /\ \A i, j \in 1..Len(issues) :
                   i < j => RowOf(issues[i])[4] < RowOf(issues[j])[4]
            /\ analysis.overall_score =
                   MaxZero(100 - SumSeq([i \in 1..Len(issues) |->
                                            RowOf(issues[i])[3]]))

\* a curl on which the three curl rules and the visibility rule fired
C28_Witness ==
    /\ exercise = "bicep_curl"
    /\ Len(analysis.issues) = 4
    /\ analysis.issues[4] = "Poor camera angle or lighting"
    /\ analysis.overall_score = 55

\* C29: for plank and for unknown only the visibility rule applies: score
\* 95 with the poor-camera issue and recommendation when min_visibility is
\* below 0.7, score 100 with empty lists otherwise, whatever the other
\* features are.
C29_PlankAndUnknownVisibilityOnly ==
    (analysis # NoAnalysis /\ exercise \in {"plank", "unknown"})
    => IF Get(features, "min_visibility", 100) < 70
       THEN analysis =
              [overall_score |-> 95,
               issues |-> <<"Poor camera angle or lighting">>,
               recommendations |-> <<"Improve camera position and lighting">>]
       ELSE analysis =
              [overall_score |-> 100,
               issues |-> << >>,
               recommendations |-> << >>]

\* a plank seen poorly, in a pose on which rules of every other exercise
\* would fire
C29_Witness ==
    /\ exercise = "plank"
    /\ analysis.overall_score = 95
    /\ FiredIssues("squat", features) # {}
    /\ FiredIssues("bicep_curl", features) # {}
    /\ FiredIssues("push_up", features) # {}
    /\ Len(analysis.issues) = 1

\* the least score the claim gives for an exercise
LeastScore(ex) ==
    CASE ex = "squat" -> 10
      [] ex = "bicep_curl" -> 55
      [] ex = "push_up" -> 60
      [] OTHER -> 95

\* C34: the score analyze_form_quality returns is at least 10 for squat, 55
\* for bicep_curl, 60 for push_up and 95 for plank and unknown; the
\* penalties of the rules that fire together sum to 90 at most, so the clamp
\* at 0 never changes the score.
C34_ScoreAtLeastTen ==
    analysis # NoAnalysis =>
        /\ analysis.overall_score >= LeastScore(exercise)
        /\ analysis.overall_score >= 10
        /\ SumSeq([i \in 1..Len(analysis.issues) |->
                      RowOf(analysis.issues[i])[3]]) <= 90
        /\ analysis.overall_score =
              100 - SumSeq([i \in 1..Len(analysis.issues) |->
                              RowOf(analysis.issues[i])[3]])

\* a push-up on which both push-up rules and the visibility rule fired
C34_Witness ==
    /\ exercise = "push_up"
    /\ Len(analysis.issues) = 3
    /\ analysis.overall_score = 60

----------------------------------------------------------------------------
(* Claims on the batch estimator *)

\* the positions of q whose score is below mean - std
LowPositions(q) ==
    {i \in 1..Len(q) :
        BelowThreshold(q[i], Len(q), SumSeq(q), SumSeq(Squares(q)))}

\* the number of maximal runs of positions below the threshold
LowRuns(q) ==
    Cardinality({i \in LowPositions(q) : (i - 1) \notin LowPositions(q)})

\* C8: estimate_rep_count returns 0 for every score list with fewer than 10
\* entries (the empty list included), and a value >= 0 for every score list.
C8_ShortListsGiveZero ==
    estimate # NoNumber
    => /\ Len(form_scores) < 10 => estimate = 0
       /\ estimate >= 0

\* nine scores with three separate dips below the threshold
C8_Witness ==
    /\ estimate = 0
    /\ Len(form_scores) = 9
    /\ LowRuns(form_scores) = 3

\* C9: for score lists of at least 10 entries, estimate_rep_count returns 0
\* when all scores are equal, and returns 0 when the list contains exactly
\* one maximal run of scores below the threshold.
C9_ConstantOrOneDipGivesZero ==
    (estimate # NoNumber /\ Len(form_scores) >= 10)
    => /\ (\A i \in 1..Len(form_scores) : form_scores[i] = form_scores[1])
          => estimate = 0
       /\ LowRuns(form_scores) = 1 => estimate = 0

\* ten scores with one dip of two scores
C9_Witness ==
    /\ estimate = 0
    /\ Len(form_scores) >= 10
    /\ LowRuns(form_scores) = 1
    /\ Cardinality(LowPositions(form_scores)) = 2

\* the positions at which q passes from a score at or above the threshold
\* to a score below it
Transitions(q) ==
    {i \in LowPositions(q) : i > 1 /\ (i - 1) \notin LowPositions(q)}

\* C24 as stated: the result is max(0, T - 1), T the number of positions at
\* which the scores pass from at or above the threshold to below it; a list
\* that begins below the threshold makes no such transition at its first
\* element.
C24_TransitionsMinusOne ==
    (estimate # NoNumber /\ Len(form_scores) >= 10)
    => estimate = MaxZero(Cardinality(Transitions(form_scores)) - 1)

\* C24, amended: for a list of at least 10 scores the result is
\* max(0, P - 1), P the number of maximal runs of scores below the
\* threshold, a run that begins at the first element included; for a
\* shorter list the result is 0.
C24_LowRunsMinusOne ==
    estimate # NoNumber
    => estimate = IF Len(form_scores) < 10
                  THEN 0
                  ELSE MaxZero(LowRuns(form_scores) - 1)

\* ten scores that begin below the threshold and dip once more: two runs,
\* one transition, and the estimate is 1
C24_Witness ==
    /\ estimate = 1
    /\ Len(form_scores) >= 10
    /\ 1 \in LowPositions(form_scores)
    /\ LowRuns(form_scores) = 2
    /\ Cardinality(Transitions(form_scores)) = 1

----------------------------------------------------------------------------
(* Claims on the batch aggregator *)

Returned == run_state = "returned"
IsError(r) == "error" \in DOMAIN r

\* the votes of this run for a label, and the position of its first vote
LogCount(label) ==
    Len(SelectSeq(analyzed_log, LAMBDA e : e.exercise = label))
FirstVote(label) ==
    CHOOSE i \in 1..Len(analyzed_log) :
        /\ analyzed_log[i].exercise = label
        /\ \A j \in 1..(i - 1) : analyzed_log[j].exercise # label

\* C11: a batch run that ends with a result names in exercise_detected a
\* label with the maximal number of votes; among the labels with that number
\* it is the one whose first vote came earliest; confidence is that label's
\* number of votes divided by the number of all votes.
C11_DominantExercise ==
    (Returned /\ ~ IsError(result)) =>
        LET winner == result.exercise_detected
        IN  /\ LogCount(winner) > 0
            /\ \A l \in ExerciseLabels : LogCount(l) <= LogCount(winner)
            /\ \A l \in ExerciseLabels \ {winner} :
                  LogCount(l) = LogCount(winner)
                      => FirstVote(winner) < FirstVote(l)
            /\ result.confidence * Len(analyzed_log)
                  = LogCount(winner) * ConfScale

\* a run in which bicep_curl got the first vote and squat as many votes has
\* returned bicep_curl with confidence 1/3
C11_Witness ==
    /\ Returned /\ ~ IsError(result)
    /\ Len(analyzed_log) = 3
    /\ analyzed_log[1].exercise = "bicep_curl"
    /\ LogCount("squat") = 1 /\ LogCount("bicep_curl") = 1
    /\ result.exercise_detected = "bicep_curl"
    /\ result.confidence = ConfScale \div 3

\* C12: a batch run in which no frame cast a vote returns an error record
\* without an exercise label (the "no pose" error when the loop ran to the
\* end of the video), and every result that is not an error has a
\* confidence above 0.
C12_NoPoseIsAnError ==
    Returned =>
        /\ analyzed_log = << >> =>
              /\ IsError(result)
              /\ "exercise_detected" \notin DOMAIN result
              /\ (video.opened /\ frame_count = video.length)
                    => result.error = NoPoseDetected
        /\ ~ IsError(result) => result.confidence > 0

\* a video of seven frames, none with a usable pose, has been analysed to its
\* end
C12_Witness ==
    /\ Returned
    /\ video.sampled = <<NoPose, NoVisibility, NoPose>>
    /\ frame_count = 7
    /\ result = ErrorResult(NoPoseDetected)

\* the first two issues of an analysis
TopTwo(issues) == IF Len(issues) <= 2 THEN issues
                  ELSE <<issues[1], issues[2]>>

\* the entries of the frames of the log that scored below 70, in log order
LowScoreEntries ==
    LET low == SelectSeq(analyzed_log, LAMBDA e : e.score < 70)
    IN  [i \in 1..Len(low) |->
            [frame |-> low[i].frame, score |-> low[i].score,
             issues |-> TopTwo(low[i].issues)]]

\* C13: key_frames holds, in frame order, one entry (frame index, score,
\* first two issues) for exactly the analysed frames that scored below 70.
C13_KeyFramesAreTheLowScores ==
    analysis_results # << >> =>
        /\ analysis_results.key_frames = LowScoreEntries
        /\ \A i \in 1..Len(analysis_results.key_frames) :
              /\ analysis_results.key_frames[i].score < 70
              /\ \A j \in 1..(i - 1) :
                    analysis_results.key_frames[j].frame
                        < analysis_results.key_frames[i].frame

\* a run has returned two key frames, the first holding two of the three
\* issues of its frame, and has left out a frame that scored exactly 70
C13_Witness ==
    /\ Returned /\ ~ IsError(result)
    /\ Len(result.key_frames) = 2
    /\ Len(analyzed_log) = 3
    /\ Len(analyzed_log[1].issues) = 3
    /\ Len(result.key_frames[1].issues) = 2
    /\ analyzed_log[2].score = 70
    /\ result.key_frames[2].frame = 6

\* C14: a call of analyze_video on the video the call before analysed, in
\* the same process, returns what that call returned.
C14_SecondRunSameResult ==
    (Returned /\ prev_result # NotReturned) => result = prev_result

\* C15: the angle history is empty when a run of analyze_video starts, and
\* the first frame analysed in a run carries no velocity feature.
C15_HistoryEmptyAtSessionStart ==
    /\ (run_state = "running" /\ frame_count = 0) => angle_history = << >>
    /\ analyzed_log # << >> =>
          "right_knee_angle_velocity" \notin DOMAIN analyzed_log[1].features

\* the positions of the sampled frames that hold a well-formed joint frame
UsableFrames ==
    {i \in 1..Len(video.sampled) : video.sampled[i] \in PoseNames \cup FloorPoses}

\* C18: a batch run over an opened video reads every frame of the video, and
\* returns an error only when no sampled frame was usable; otherwise its
\* result is built from all usable frames.
C18_FrameFailureNeverEndsTheRun ==
    (Returned /\ video.opened) =>
        /\ frame_count = video.length
        /\ IsError(result) <=> UsableFrames = {}
        /\ ~ IsError(result) =>
              result.frames_analyzed = Cardinality(UsableFrames)

\* C31: the batch pass analyses only frames whose 0-based index is a
\* multiple of the stride 3: for a video of N frames frames_analyzed never
\* exceeds ceil(N / 3), and the frame index of every key frame is a
\* multiple of 3.
C31_EveryThirdFrameOnly ==
    analysis_results # << >> =>
        /\ 3 * analysis_results.frames_analyzed < video.length + 3
        /\ \A i \in 1..Len(analysis_results.key_frames) :
              analysis_results.key_frames[i].frame % 3 = 0
        /\ \A i \in 1..Len(analyzed_log) : analyzed_log[i].frame % 3 = 0

\* a video of ten frames has been analysed to its end: frames 0, 3, 6 and 9
\* were analysed, and frame 9 is a key frame
C31_Witness ==
    /\ Returned /\ ~ IsError(result)
    /\ video.length = 10
    /\ result.frames_analyzed = 4
    /\ result.key_frames # << >>
    /\ result.key_frames[Len(result.key_frames)].frame = 9

\* C35: in batch analysis a frame classified push_up, plank or unknown
\* scores 95 or 100 and never becomes a key frame; only frames classified
\* squat or bicep_curl produce key frames.
C35_KeyFramesOnlyFromSquatAndCurl ==
    analysis_results # << >> =>
        /\ \A i \in 1..Len(analyzed_log) :
              analyzed_log[i].exercise \in {"push_up", "plank", "unknown"}
                  => analyzed_log[i].score \in {95, 100}
        /\ \A k \in 1..Len(analysis_results.key_frames) :
              \E i \in 1..Len(analyzed_log) :
                  /\ analyzed_log[i].frame = analysis_results.key_frames[k].frame
                  /\ analyzed_log[i].exercise \in {"squat", "bicep_curl"}

\* a run over a push-up, a plank, a frame of no known exercise and a squat
\* has returned one key frame, the squat
C35_Witness ==
    /\ Returned /\ ~ IsError(result)
    /\ Len(analyzed_log) = 4
    /\ analyzed_log[1].exercise = "push_up" /\ analyzed_log[1].score = 95
    /\ analyzed_log[2].exercise = "plank" /\ analyzed_log[2].score = 100
    /\ analyzed_log[3].exercise = "unknown"
    /\ analyzed_log[4].exercise = "squat"
    /\ Len(result.key_frames) = 1
    /\ result.key_frames[1].frame = 9

\* the strings that fired in at least one analysed frame of the run
IssuesOfTheRun == UNION {Range(analyzed_log[i].issues) :
                            i \in 1..Len(analyzed_log)}
RecommendationsOfTheRun ==
    UNION {Range(analyze_form_quality(analyzed_log[i].exercise,
                                      analyzed_log[i].features).recommendations) :
              i \in 1..Len(analyzed_log)}

\* C32: in a successful batch result issues_detected and recommendations
\* hold every distinct string that fired in at least one analysed frame,
\* nothing else, and no string twice (list(set(...)) is kept as the set of
\* its elements: the order of the list is not defined).
C32_IssuesAndRecommendationsAreSets ==
    (Returned /\ ~ IsError(result)) =>
        /\ result.issues_detected = IssuesOfTheRun
        /\ result.recommendations = RecommendationsOfTheRun

\* a run in which the same issue fired on two frames, one of them scoring
\* 70 or more, has returned it once
C32_Witness ==
    /\ Returned /\ ~ IsError(result)
    /\ Len(analyzed_log) >= 2
    /\ \E i, j \in 1..Len(analyzed_log) :
          /\ i < j
          /\ analyzed_log[i].score >= 70
          /\ analyzed_log[i].issues # << >>
          /\ Range(analyzed_log[i].issues) \subseteq Range(analyzed_log[j].issues)
    /\ Cardinality(result.issues_detected)
          < SumSeq([i \in 1..Len(analyzed_log) |-> Len(analyzed_log[i].issues)])

----------------------------------------------------------------------------
(* Claims on the classifier *)

RuleOrder == <<"squat", "bicep_curl", "push_up", "plank">>

RuleHolds(label, f) ==
    CASE label = "squat" -> IsSquat(f)
      [] label = "bicep_curl" -> IsBicepCurl(f)
      [] label = "push_up" -> IsPushUp(f)
      [] label = "plank" -> IsPlank(f)

\* the positions, in the priority order, of the rules whose predicate holds
Holding(f) == {i \in 1..Len(RuleOrder) : RuleHolds(RuleOrder[i], f)}

\* C19: detect_exercise_type returns the label of the first rule, in the
\* order squat, bicep_curl, push_up, plank, whose predicate holds, and
\* "unknown" when no predicate holds; lower-priority rules that hold too do
\* not change the answer.
C19_FirstMatchingRuleWins ==
    detected_label # None =>
        IF Holding(features) = {}
        THEN detected_label = "unknown"
        ELSE \E i \in Holding(features) :
                /\ \A j \in Holding(features) : i <= j
                /\ detected_label = RuleOrder[i]

\* a vector on which the push-up and the plank predicate both hold has been
\* classified, and the push-up label was returned
C19_Witness ==
    /\ detected_label = "push_up"
    /\ IsPushUp(features) /\ IsPlank(features)

\* C20: for every feature vector at most one of the four rule predicates
\* holds.
C20_PredicatesMutuallyExclusive ==
    detected_label # None => Cardinality(Holding(features)) <= 1

\* C21: for every feature vector holding the six joint angles
\* detect_exercise_type returns one label of squat, push_up, bicep_curl,
\* plank, unknown; when the vector holds the six joint angles only, the
\* label is squat or unknown.
C21_LabelOfTheFiveAndAnglesOnly ==
    detected_label # None =>
        /\ detected_label \in ExerciseLabels
        /\ DOMAIN features = AngleKeys
              => detected_label \in {"squat", "unknown"}

\* a vector of the six angles only, bent at knees, hips and elbows, has been
\* classified
C21_Witness ==
    /\ detected_label \in {"squat", "unknown"}
    /\ DOMAIN features = AngleKeys
    /\ \A joint \in AngleKeys : features[joint] = 100

----------------------------------------------------------------------------
(* Claims on the feature extractor *)

\* C17: extract_comprehensive_features returns (None, None), without
\* raising, whenever the landmark set is null or empty or the shape is
\* missing or invalid.
C17_MalformedFrameGivesNone ==
    (extracted.outcome # "not called"
        /\ (extracted.landmarks \in {None, EmptyList}
                \/ extracted.shape # ShapeHWC))
    => extracted.outcome = "None"

\* the keys of the temporal features of a joint
VelocityKey(joint) == joint \o "_velocity"
IsFastKey(joint) == joint \o "_is_fast"

\* C30: calculate_temporal_features appends the current angles to the
\* history of at most 30 entries and compares them with the entry just
\* before them only: the first frame of an empty history yields no velocity
\* features; on every later frame each angle's velocity is
\* |current - previous| * 30 and its is_fast flag is 1 exactly when that
\* velocity is greater than 100, else 0.
C30_AppendThenCompareWithPrevious ==
    [][temporal_calls' # temporal_calls =>
        LET current == temporal_args'
            returned == temporal_returned'
            n == Len(angle_history)
        IN  /\ Len(angle_history') <= 30
            /\ angle_history' =
                  IF n < 30
                  THEN angle_history \o <<current>>
                  ELSE SubSeq(angle_history, 2, n) \o <<current>>
            /\ IF n = 0
               THEN DOMAIN returned = {}
               ELSE /\ DOMAIN returned =
                         {VelocityKey(joint) : joint \in AngleKeys}
                            \cup {IsFastKey(joint) : joint \in AngleKeys}
                    /\ \A joint \in AngleKeys :
                         LET previous == angle_history[n]
                             delta == current[joint] - previous[joint]
                             speed == 30 * (IF delta < 0 THEN 0 - delta
                                                         ELSE delta)
                         IN  /\ returned[VelocityKey(joint)] = speed
                             /\ returned[IsFastKey(joint)] =
                                   IF speed > 100 THEN 1 ELSE 0]_vars

\* the second call on a history one entry short of full: the oldest entry
\* has been dropped, the knee moved by 3 degrees (velocity 90, not fast) and
\* the elbow by 110 degrees (fast), away from the pose the history began with
C30_Witness ==
    /\ temporal_calls = 2
    /\ Len(angle_history) = AngleHistoryMaxlen
    /\ angle_history[1] # angle_history[AngleHistoryMaxlen - 1]
    /\ temporal_returned.right_knee_angle_velocity = 90
    /\ temporal_returned.right_knee_angle_is_fast = 0
    /\ temporal_returned.right_elbow_angle_is_fast = 1

----------------------------------------------------------------------------
(* Claims on the session reset *)

\* the session state of a freshly created session: rep count and phases,
\* the smoothed exercise and its confidence, the bounded histories of
\* labels, form scores and angles, and the coach's histories, rep tracking
\* and rest and fatigue flags
FreshSession ==
    /\ rep_count = 0
    /\ rep_states = InitialRepStates
    /\ current_exercise = "unknown"
    /\ exercise_confidence = 0
    /\ exercise_history = << >>
    /\ tracker.form_scores = << >>
    /\ angle_history = << >>
    /\ coach.form_history = << >>
    /\ coach.rep_history = << >>
    /\ coach.exercise_history = << >>
    /\ coach.last_rep_count \in {NoNumber, 0}
    /\ ~coach.fatigue_detected
    /\ ~coach.rest_recommended
    /\ coach.rest_start_time = None
    /\ ~coach.resting
    /\ coach.rest_start = None

\* C16: after reset_session all session state equals that of a freshly
\* created session; nothing of the session before survives the reset.
C16_ResetRestoresFreshSession == [][SessionReset => FreshSession']_vars

\* the part of C16 on the coach alone: a reset step clears the coach's
\* legacy resting flag
ResetEndsLegacyRest == [][SessionReset => ~coach.resting']_vars

\* the counter of exercise ex has these thresholds and this phase
CounterIs(ex, low, high, phase) ==
    /\ rep_states[ex].threshold_low = low
    /\ rep_states[ex].threshold_high = high
    /\ rep_states[ex].current_phase = phase

\* the rep count and the three counters a new session is said to start with
StartCounters ==
    /\ rep_count = 0
    /\ DOMAIN rep_states = {"squat", "bicep_curl", "push_up"}
    /\ CounterIs("squat", 120, 160, "up")
    /\ CounterIs("bicep_curl", 90, 150, "down")
    /\ CounterIs("push_up", 110, 160, "up")

ThresholdsKept ==
    /\ \E phase \in {"up", "down"} : CounterIs("squat", 120, 160, phase)
    /\ \E phase \in {"up", "down"} : CounterIs("bicep_curl", 90, 150, phase)
    /\ \E phase \in {"up", "down"} : CounterIs("push_up", 110, 160, phase)

\* C25: a new live session starts with rep count 0 and the counters squat
\* (120, 160, up), bicep_curl (90, 150, down), push_up (110, 160, up);
\* reset_session restores these phases and the zero rep count; no operation
\* changes a threshold.
C25_CountersStartResetAndThresholds ==
    /\ StartCounters
    /\ []ThresholdsKept
    /\ [][SessionReset => StartCounters']_vars

\* a session that was reset (the coach's last_rep_count exists and its
\* histories are empty) after frames had been seen: the counters are those
\* of a new session
C25_Witness ==
    /\ StartCounters
    /\ coach.last_rep_count = 0
    /\ coach.form_history = << >>
    /\ coach.resting
    /\ angle_history # << >>

----------------------------------------------------------------------------
(* Claims on the coach *)

\* a step that is a call of update (it appends to form_history)
IsCoachUpdate ==
    /\ coach'.form_history # coach.form_history
    /\ coach'.form_history # << >>

\* C39: once update is called with rep_count >= 15, every coaching
\* opportunity of a later update without a reset in between and with
\* rep_count still >= 15 takes the rest branch of provide_coaching; so does
\* that call itself.  The form-based coaching is not reached.
C39_RestBranchFromFifteenReps ==
    [][(IsCoachUpdate /\ coach'.last_rep_count >= 15)
          => coach'.coaching_branch = "rest"]_vars

\* three updates with 15 reps or more and poor form: the third took the
\* rest branch, and a rest is recommended again
C39_Witness ==
    /\ Len(coach.form_history) = 3
    /\ \A i \in 1..3 : coach.form_history[i] = 30
    /\ coach.last_rep_count = 16
    /\ Len(coach.rep_history) = 1
    /\ coach.coaching_branch = "rest"
    /\ coach.rest_recommended

----------------------------------------------------------------------------
(* Claims on calculate_angle *)

\* C22: calculate_angle returns 0 whenever one of the two rays is
\* zero-length (a = b or c = b), whatever the third point is.
C22_ZeroRayGivesZero ==
    (angle_returned # NoNumber
        /\ (angle_args.a = angle_args.b \/ angle_args.c = angle_args.b))
    => angle_returned = 0

\* the call of the test: a = b and c elsewhere, and 0 was returned
C22_Witness ==
    /\ angle_args = [a |-> <<0, 0>>, b |-> <<0, 0>>, c |-> <<1, 1>>]
    /\ angle_returned = 0

----------------------------------------------------------------------------
(* Claims on the voice queue *)

\* C23: say_coaching never waits for the voice worker: whatever the worker
\* is doing and however many messages are queued, its put is taken at once
\* (or not made at all, without a voice).
C23_SayCoachingNeverWaits == put_outcome # "waited"

\* say_coaching has returned three times while the worker was speaking or
\* had stopped, and messages are still queued
C23_Witness ==
    /\ said = MaxSaid
    /\ put_outcome = "enqueued"
    /\ voice_thread \in {"speaking", "stopped"}
    /\ Len(voice_queue) >= 2

\* the items put before the first sentinel
BeforeStop(q) ==
    IF Stop \in Range(q)
    THEN SubSeq(q, 1, (CHOOSE i \in 1..Len(q) :
                          q[i] = Stop /\ \A j \in 1..(i - 1) : q[j] # Stop) - 1)
    ELSE q

\* C33: cleanup flushes the voice worker through the queue: once the STOP
\* sentinel is enqueued the worker, as long as it is scheduled, eventually
\* exits; it exits only on the sentinel, after it has dequeued every message
\* enqueued before the sentinel, in the order they were enqueued; a speech
\* error or an empty queue never ends it.
C33_SentinelFlushesTheWorker ==
    /\ [](voice_log.enqueued = voice_log.dequeued \o voice_queue)
    /\ [](voice_thread = "stopped" =>
            voice_log.dequeued = BeforeStop(voice_log.enqueued) \o <<Stop>>)
    /\ [][(voice_thread' = "stopped" /\ voice_thread # "stopped") =>
            (voice_thread = "waiting" /\ voice_queue # << >>
                /\ Head(voice_queue) = Stop)]_vars
    /\ (Stop \in Range(voice_queue)) ~> (voice_thread = "stopped")

\* the worker has exited on the sentinel after a get that timed out, two
\* messages dequeued in the order they were enqueued, and a speech that
\* raised
C33_Witness ==
    /\ voice_thread = "stopped"
    /\ Len(voice_log.dequeued) = 3
    /\ voice_log.dequeued[1] # voice_log.dequeued[2]
    /\ voice_log.speech_errors >= 1
    /\ voice_log.timed_out

====
